---------------------------- MODULE Spec2Model ----------------------------
(***************************************************************************)
(* State-machine model of the EU Green chatbot backend:                    *)
(*   - ChatService.process_message with UnifiedChatAgent.process_query     *)
(*     (backend/services/chat_service.py, backend/agents/                  *)
(*     unified_chat_agent.py),                                             *)
(*   - VerdanaAgent.process_query (backend/agents/verdana_agent.py),       *)
(*   - document ingest, delete and search of RAGService and                *)
(*     DocumentService (backend/services/rag_service.py,                   *)
(*     backend/services/document_service.py).                              *)
(* Every request is an asyncio task; an action is the code a task runs     *)
(* between two suspension points (an await that really yields).  The       *)
(* completion client is the synchronous OpenAI client, so a completion     *)
(* call is not a suspension point.                                         *)
(* Similarities and confidences are integers in hundredths.                *)
(***************************************************************************)
EXTENDS Integers, Sequences, FiniteSets, TLC

VARIABLES
    \* ChatService and UnifiedChatAgent
    chat_history,        \* ChatService.chat_history: session id -> list of turns
    pm,                  \* per task: the locals of a process_message call in flight
    pm_result,           \* per task: what its last process_message call returned
    req_count,           \* per session: process_message calls started so far
    clears,              \* clear_chat_history calls made so far
    cleared_upto,        \* history: per session, the requests started before its last clear
    web_research_agent,  \* UnifiedChatAgent.web_research_agent is not None
    \* VerdanaAgent
    session_contexts,    \* VerdanaAgent.session_contexts: session id -> list of turns
    session_languages,   \* VerdanaAgent.session_languages: session id -> language
    vq,                  \* per task: the locals of a process_query call in flight
    v_result,            \* per task: what its last process_query call returned
    v_count,             \* per session: process_query calls started so far
    \* the database tables and the services that write them
    documents,           \* table documents: rows [id, file_hash]
    document_chunks,     \* table document_chunks: rows [id, document_id, content]
    next_id,             \* the next value of the tables' id sequences
    store_ops,           \* upload, ingest and delete calls started so far
    rs,                  \* per task: a RAGService upload_document or delete_document call
    rs_result,           \* per task: what that call returned
    documents_db,        \* DocumentService.documents_db: document id -> info
    ds,                  \* per task: a DocumentService process_document or delete_document call
    ds_result,           \* per task: what that call returned
    \* RAGService.search_documents
    store_sims,          \* the stored chunks by similarity to the query: similarity -> count
    top_k,               \* the top_k of the searches
    search_results,      \* the results of the searches made so far, latest last
    \* RAGService._create_chunks
    ck,                  \* a _create_chunks call: its configuration, text and locals
    \* UnifiedChatAgent._calculate_confidence
    confidence_calls,    \* the calls made so far: arguments and value returned
    \* RAGService._db_pool
    db_pool,             \* self._db_pool: 0 is None, otherwise the number of the pool
    pools_created,       \* asyncpg.create_pool calls that returned a pool
    conn,                \* per task: its _get_db_connection call and connection
    \* api/routes/documents.py
    api,                 \* per task: its request handler and the DocumentService it built
    api_result,          \* per task: what the endpoint answered
    processed_ids        \* history: ids answered "processed" and not deleted since

chatVars    == <<chat_history, pm, pm_result, req_count, clears, cleared_upto, web_research_agent>>
verdanaVars == <<session_contexts, session_languages, vq, v_result, v_count>>
storeVars   == <<documents, document_chunks, next_id, store_ops, rs, rs_result,
                 documents_db, ds, ds_result>>
searchVars  == <<store_sims, top_k, search_results>>
chunkVars   == <<ck>>
confidenceVars == <<confidence_calls>>
poolVars == <<db_pool, pools_created, conn>>
routeVars == <<api, api_result, processed_ids>>
vars == <<chatVars, verdanaVars, storeVars, searchVars, chunkVars, confidenceVars, poolVars,
          routeVars>>

\* ------------------------------------------------------------------ bounds
NumProcs    == 2         \* concurrent request tasks
MaxRequests == 11        \* process_message calls started in a behaviour of SpecHistory
MaxChatRequests == 2     \* process_message calls started in a behaviour of SpecChat
MaxSessionRequests == 2  \* process_message calls started in a behaviour of SpecSessions
MaxVerdanaRequests == 2  \* process_query calls started in a behaviour of SpecVerdana
MaxStoreOps == 3         \* upload, ingest and delete calls started in a behaviour
MaxSearches == 2         \* search_documents calls in a behaviour of SpecSearch
MaxTopK     == 2         \* the largest top_k of a search
MaxClears   == 1         \* clear_chat_history calls in a behaviour
MaxTextLen  == 5         \* the longest text handed to _create_chunks
MaxChunkSize == 3        \* the largest CHUNK_SIZE and CHUNK_OVERLAP configured
MaxIterations == 6       \* iterations of the chunking loop followed in a behaviour
MaxSources  == 4         \* the longest source list handed to _calculate_confidence
MaxConfidenceCalls == 2  \* _calculate_confidence calls in a behaviour of SpecConfidence
MaxConnections == 3      \* _get_db_connection calls of a task in a behaviour of SpecPool
MaxRouteRequests == 3    \* requests to the documents endpoints in a behaviour of SpecRoutes

Procs    == 1..NumProcs
Sessions == {"s1", "s2"}

\* ------------------------------------------------------- generic helpers
Min(a, b) == IF a < b THEN a ELSE b

\* a Python list slice l[-n:]
LastN(l, n) == IF Len(l) <= n THEN l ELSE SubSeq(l, Len(l) - n + 1, Len(l))

\* a Python list slice l[:n]
FirstN(l, n) == IF Len(l) <= n THEN l ELSE SubSeq(l, 1, n)

\* Python's `p in s` on strings (sequences of characters)
Contains(s, p) == \E i \in 0..(Len(s) - Len(p)) : SubSeq(s, i + 1, i + Len(p)) = p

\* any(k in s for k in keywords)
ContainsAny(s, keywords) == \E i \in 1..Len(keywords) : Contains(s, keywords[i])

StartsWith(s, p) == Len(p) <= Len(s) /\ SubSeq(s, 1, Len(p)) = p

UpperCase == <<"A","B","C","D","E","F","G","H","I","J","K","L","M",
               "N","O","P","Q","R","S","T","U","V","W","X","Y","Z">>
LowerCase == <<"a","b","c","d","e","f","g","h","i","j","k","l","m",
               "n","o","p","q","r","s","t","u","v","w","x","y","z">>

LowerChar(c) ==
    IF \E i \in 1..26 : UpperCase[i] = c
    THEN LowerCase[CHOOSE i \in 1..26 : UpperCase[i] = c]
    ELSE c

\* str.lower()
Lower(s) == [i \in 1..Len(s) |-> LowerChar(s[i])]

\* str.strip()
Strip(s) ==
    LET idx == {i \in 1..Len(s) : s[i] # " "}
    IN IF idx = {} THEN <<>>
       ELSE SubSeq(s, CHOOSE i \in idx : \A j \in idx : i <= j,
                      CHOOSE i \in idx : \A j \in idx : i >= j)

\* len(s.split()): the number of maximal runs of non-blank characters
WordCount(s) ==
    Cardinality({i \in 1..Len(s) : s[i] # " " /\ (i = 1 \/ s[i - 1] = " ")})

\* ---- string data of UnifiedChatAgent._is_eu_green_query (unified_chat_agent.py:192-255)
eu_terms ==
    << <<"g","r","e","e","n"," ","d","e","a","l">>,
       <<"b","i","o","d","i","v","e","r","s","i","t","y">>, <<"c","l","i","m","a","t","e">>,
       <<"e","m","i","s","s","i","o","n">>, <<"c","b","a","m">>,
       <<"d","i","r","e","c","t","i","v","e">>, <<"r","e","g","u","l","a","t","i","o","n">>,
       <<"s","u","s","t","a","i","n","a","b","i","l","i","t","y">>,
       <<"f","a","r","m"," ","t","o"," ","f","o","r","k">>,
       <<"c","i","r","c","u","l","a","r"," ","e","c","o","n","o","m","y">>,
       <<"r","e","n","e","w","a","b","l","e">>, <<"c","a","r","b","o","n">>,
       <<"p","r","o","t","e","c","t","e","d"," ","a","r","e","a","s">>,
       <<"r","e","s","t","o","r","a","t","i","o","n">>, <<"s","p","e","c","i","e","s">>,
       <<"p","o","l","l","i","n","a","t","o","r">>, <<"s","t","r","a","t","e","g","y">> >>

follow_up_patterns ==
    << <<"m","o","r","e"," ","i","n","f","o","r","m","a","t","i","o","n">>,
       <<"t","e","l","l"," ","m","e"," ","m","o","r","e">>,
       <<"e","l","a","b","o","r","a","t","e">>,
       <<"e","x","p","l","a","i","n"," ","f","u","r","t","h","e","r">>,
       <<"d","e","t","a","i","l","s">>, <<"c","o","n","t","i","n","u","e">>,
       <<"e","x","p","a","n","d"," ","o","n">>,
       <<"m","o","r","e"," ","d","e","t","a","i","l","s">>,
       <<"g","i","v","e"," ","m","e"," ","m","o","r","e">>,
       <<"c","a","n"," ","y","o","u"," ","g","i","v","e"," ","m","e"," ","m","o","r","e">>,
       <<"a","b","o","u","t"," ","m","y"," ","p","r","e","v","i","o","u","s">>,
       <<"a","b","o","u","t"," ","t","h","e"," ","p","r","e","v","i","o","u","s">>,
       <<"m","o","r","e"," ","a","b","o","u","t">>,
       <<"a","d","d","i","t","i","o","n","a","l"," ","i","n","f","o","r","m","a","t","i","o","n">>,
       <<"f","u","r","t","h","e","r"," ","d","e","t","a","i","l","s">> >>

generic_follow_ups ==
    << <<"m","o","r","e"," ","i","n","f","o","r","m","a","t","i","o","n"," ","p","l","e","a","s","e">>,
       <<"g","i","v","e"," ","m","e"," ","m","o","r","e"," ","i","n","f","o","r","m","a","t","i","o","n"," ","p","l","e","a","s","e">>,
       <<"c","a","n"," ","y","o","u"," ","g","i","v","e"," ","m","e"," ","m","o","r","e"," ","i","n","f","o","r","m","a","t","i","o","n"," ","p","l","e","a","s","e">>,
       <<"a","b","o","u","t"," ","m","y"," ","p","r","e","v","i","o","u","s"," ","m","e","s","s","a","g","e">>,
       <<"a","b","o","u","t"," ","t","h","e"," ","p","r","e","v","i","o","u","s">>,
       <<"m","o","r","e"," ","p","l","e","a","s","e">> >>

eu_keywords ==
    << <<"g","r","e","e","n"," ","d","e","a","l">>,
       <<"e","u","r","o","p","e","a","n"," ","g","r","e","e","n"," ","d","e","a","l">>,
       <<"c","l","i","m","a","t","e"," ","l","a","w">>,
       <<"f","i","t"," ","f","o","r"," ","5","5">>, <<"t","a","x","o","n","o","m","y">>,
       <<"c","b","a","m">>, <<"c","a","r","b","o","n"," ","b","o","r","d","e","r">>,
       <<"f","a","r","m"," ","t","o"," ","f","o","r","k">>,
       <<"b","i","o","d","i","v","e","r","s","i","t","y"," ","s","t","r","a","t","e","g","y">>,
       <<"c","i","r","c","u","l","a","r"," ","e","c","o","n","o","m","y">>,
       <<"r","e","n","e","w","a","b","l","e"," ","e","n","e","r","g","y">>,
       <<"e","m","i","s","s","i","o","n">>, <<"c","a","r","b","o","n">>,
       <<"c","l","i","m","a","t","e">>,
       <<"s","u","s","t","a","i","n","a","b","i","l","i","t","y">>,
       <<"e","n","v","i","r","o","n","m","e","n","t">>,
       <<"b","i","o","d","i","v","e","r","s","i","t","y">>,
       <<"d","i","r","e","c","t","i","v","e">>, <<"r","e","g","u","l","a","t","i","o","n">>,
       <<"c","o","m","p","l","i","a","n","c","e">>, <<"c","s","r","d">>, <<"e","s","g">>,
       <<"e","u"," ","p","o","l","i","c","y">>,
       <<"e","u","r","o","p","e","a","n"," ","p","o","l","i","c","y">> >>

general_patterns ==
    << <<"h","e","l","l","o">>, <<"h","i">>, <<"h","e","y">>, <<"t","h","a","n","k","s">>,
       <<"t","h","a","n","k"," ","y","o","u">>, <<"w","h","o"," ","a","r","e"," ","y","o","u">>,
       <<"w","h","a","t"," ","a","r","e"," ","y","o","u">>, <<"g","o","o","d","b","y","e">>,
       <<"b","y","e">>, <<"h","o","w"," ","a","r","e"," ","y","o","u">>,
       <<"g","r","e","a","t">>, <<"e","x","c","e","l","l","e","n","t">>, <<"o","k">>,
       <<"o","k","a","y">> >>

policy_terms ==
    << <<"p","o","l","i","c","y">>, <<"r","e","g","u","l","a","t","i","o","n">>,
       <<"d","i","r","e","c","t","i","v","e">>, <<"c","o","m","p","l","i","a","n","c","e">>,
       <<"e","u">>, <<"e","u","r","o","p","e","a","n">> >>

\* ---- string data of VerdanaAgent (verdana_agent.py:45-67, 131-147, 160)
eu_green_keywords ==
    << <<"g","r","e","e","n"," ","d","e","a","l">>, <<"e","u"," ","g","r","e","e","n">>,
       <<"e","u","r","o","p","e","a","n"," ","g","r","e","e","n">>,
       <<"c","l","i","m","a","t","e"," ","l","a","w">>,
       <<"b","i","o","d","i","v","e","r","s","i","t","y">>, <<"c","b","a","m">>,
       <<"c","a","r","b","o","n"," ","b","o","r","d","e","r">>,
       <<"f","a","r","m"," ","t","o"," ","f","o","r","k">>,
       <<"c","i","r","c","u","l","a","r"," ","e","c","o","n","o","m","y">>,
       <<"t","a","x","o","n","o","m","y">>,
       <<"e","m","i","s","s","i","o","n","s"," ","t","r","a","d","i","n","g">>,
       <<"r","e","n","e","w","a","b","l","e"," ","e","n","e","r","g","y">>,
       <<"e","n","e","r","g","y"," ","e","f","f","i","c","i","e","n","c","y">>,
       <<"f","i","t"," ","f","o","r"," ","5","5">>,
       <<"c","l","i","m","a","t","e"," ","n","e","u","t","r","a","l">>,
       <<"n","e","t"," ","z","e","r","o">>,
       <<"p","a","r","i","s"," ","a","g","r","e","e","m","e","n","t">>,
       <<"c","l","i","m","a","t","e"," ","c","h","a","n","g","e">>,
       <<"s","u","s","t","a","i","n","a","b","i","l","i","t","y">>,
       <<"e","n","v","i","r","o","n","m","e","n","t","a","l"," ","p","o","l","i","c","y">>,
       <<"c","a","r","b","o","n"," ","f","o","o","t","p","r","i","n","t">>,
       <<"e","m","i","s","s","i","o","n">>, <<"d","i","r","e","c","t","i","v","e">>,
       <<"r","e","g","u","l","a","t","i","o","n">>, <<"c","o","m","p","l","i","a","n","c","e">>,
       <<"e","n","v","i","r","o","n","m","e","n","t">>, <<"c","l","i","m","a","t","e">>,
       <<"s","u","s","t","a","i","n","a","b","l","e">>, <<"c","a","r","b","o","n">>,
       <<"g","r","e","e","n","h","o","u","s","e"," ","g","a","s">>,
       <<"p","o","l","l","u","t","i","o","n">>,
       <<"b","i","o","d","i","v","e","r","s","i","t","y">>,
       <<"e","c","o","s","y","s","t","e","m">>,
       <<"d","e","f","o","r","e","s","t","a","t","i","o","n">>,
       <<"r","e","f","o","r","e","s","t","a","t","i","o","n">>,
       <<"o","r","g","a","n","i","c"," ","f","a","r","m","i","n","g">>,
       <<"p","e","s","t","i","c","i","d","e">>, <<"f","e","r","t","i","l","i","z","e","r">>,
       <<"s","o","i","l"," ","h","e","a","l","t","h">>,
       <<"w","a","t","e","r"," ","q","u","a","l","i","t","y">>,
       <<"a","i","r"," ","q","u","a","l","i","t","y">>,
       <<"w","a","s","t","e"," ","m","a","n","a","g","e","m","e","n","t">>,
       <<"r","e","c","y","c","l","i","n","g">>, <<"p","l","a","s","t","i","c">>,
       <<"p","a","c","k","a","g","i","n","g">>, <<"t","r","a","n","s","p","o","r","t">>,
       <<"a","v","i","a","t","i","o","n">>, <<"m","a","r","i","t","i","m","e">>,
       <<"s","h","i","p","p","i","n","g">>,
       <<"e","l","e","c","t","r","i","c"," ","v","e","h","i","c","l","e">>,
       <<"h","y","d","r","o","g","e","n">>, <<"s","o","l","a","r">>, <<"w","i","n","d">>,
       <<"b","a","t","t","e","r","y">>,
       <<"e","n","e","r","g","y"," ","s","t","o","r","a","g","e">>, <<"g","r","i","d">>,
       <<"s","m","a","r","t"," ","c","i","t","y">>,
       <<"b","u","i","l","d","i","n","g"," ","r","e","n","o","v","a","t","i","o","n">>,
       <<"i","n","s","u","l","a","t","i","o","n">>, <<"h","e","a","t"," ","p","u","m","p">>,
       <<"d","i","s","t","r","i","c","t"," ","h","e","a","t","i","n","g">>,
       <<"i","n","d","u","s","t","r","i","a","l"," ","s","t","r","a","t","e","g","y">>,
       <<"s","t","e","e","l">>, <<"c","e","m","e","n","t">>,
       <<"c","h","e","m","i","c","a","l">>, <<"t","e","x","t","i","l","e">>,
       <<"c","o","n","s","t","r","u","c","t","i","o","n">>, <<"d","i","g","i","t","a","l">>,
       <<"a","r","t","i","f","i","c","i","a","l"," ","i","n","t","e","l","l","i","g","e","n","c","e">>,
       <<"b","l","o","c","k","c","h","a","i","n">>, <<"m","o","n","i","t","o","r","i","n","g">>,
       <<"r","e","p","o","r","t","i","n","g">>,
       <<"v","e","r","i","f","i","c","a","t","i","o","n">>, <<"a","u","d","i","t">>,
       <<"c","e","r","t","i","f","i","c","a","t","i","o","n">>, <<"l","a","b","e","l">>,
       <<"s","t","a","n","d","a","r","d">>, <<"c","r","i","t","e","r","i","a">>,
       <<"t","h","r","e","s","h","o","l","d">>, <<"t","a","r","g","e","t">>,
       <<"g","o","a","l">>, <<"o","b","j","e","c","t","i","v","e">>,
       <<"m","i","l","e","s","t","o","n","e">>, <<"t","i","m","e","l","i","n","e">>,
       <<"d","e","a","d","l","i","n","e">>,
       <<"i","m","p","l","e","m","e","n","t","a","t","i","o","n">>,
       <<"t","r","a","n","s","i","t","i","o","n">>,
       <<"t","r","a","n","s","f","o","r","m","a","t","i","o","n">>,
       <<"i","n","n","o","v","a","t","i","o","n">>, <<"i","n","v","e","s","t","m","e","n","t">>,
       <<"f","u","n","d","i","n","g">>, <<"f","i","n","a","n","c","e">>, <<"b","a","n","k">>,
       <<"l","o","a","n">>, <<"s","u","b","s","i","d","y">>,
       <<"i","n","c","e","n","t","i","v","e">>, <<"t","a","x">>, <<"l","e","v","y">>,
       <<"p","e","n","a","l","t","y">>, <<"f","i","n","e">>,
       <<"e","n","f","o","r","c","e","m","e","n","t">>,
       <<"l","i","t","i","g","a","t","i","o","n">>, <<"c","o","u","r","t">>,
       <<"j","u","s","t","i","c","e">> >>

identity_keywords ==
    << <<"w","h","o"," ","a","r","e"," ","y","o","u">>,
       <<"w","h","a","t"," ","a","r","e"," ","y","o","u">>,
       <<"t","e","l","l"," ","m","e"," ","a","b","o","u","t"," ","y","o","u","r","s","e","l","f">>,
       <<"y","o","u","r"," ","i","d","e","n","t","i","t","y">>,
       <<"y","o","u","r"," ","n","a","m","e">>,
       <<"w","h","o"," ","c","r","e","a","t","e","d"," ","y","o","u">>,
       <<"w","h","o"," ","m","a","d","e"," ","y","o","u">>,
       <<"w","h","o"," ","b","u","i","l","t"," ","y","o","u">>,
       <<"w","h","o"," ","e","n","g","i","n","e","e","r","e","d"," ","y","o","u">>,
       <<"y","o","u","r"," ","c","r","e","a","t","o","r">>,
       <<"y","o","u","r"," ","d","e","v","e","l","o","p","e","r">>,
       <<"a","b","o","u","t"," ","v","e","r","d","a","n","a">> >>

\* casual_patterns, regular expressions anchored at the start: those ending in $ match
\* the whole query (^thanks?$ matches "thank" and "thanks"), the others a prefix of it
casual_patterns_exact ==
    << <<"h","i">>, <<"h","e","l","l","o">>, <<"h","e","y">>,
       <<"g","o","o","d"," ","m","o","r","n","i","n","g">>,
       <<"g","o","o","d"," ","a","f","t","e","r","n","o","o","n">>,
       <<"g","o","o","d"," ","e","v","e","n","i","n","g">>, <<"t","h","a","n","k">>,
       <<"t","h","a","n","k","s">>, <<"t","h","a","n","k"," ","y","o","u">>, <<"o","k">>,
       <<"o","k","a","y">>, <<"y","e","s">>, <<"n","o">>, <<"b","y","e">>,
       <<"g","o","o","d","b","y","e">> >>

casual_patterns_prefix ==
    << <<"h","o","w"," ","a","r","e"," ","y","o","u">>, <<"w","h","a","t","'","s"," ","u","p">>,
       <<"s","e","e"," ","y","o","u">>,
       <<"n","i","c","e"," ","t","o"," ","m","e","e","t"," ","y","o","u">>,
       <<"p","l","e","a","s","e","d"," ","t","o"," ","m","e","e","t"," ","y","o","u">> >>

policy_keywords ==
    << <<"p","o","l","i","c","y">>, <<"r","e","g","u","l","a","t","i","o","n">>,
       <<"d","i","r","e","c","t","i","v","e">>, <<"l","a","w">>,
       <<"c","o","m","p","l","i","a","n","c","e">>,
       <<"r","e","q","u","i","r","e","m","e","n","t">> >>
\* ------------------------------------------------------------- messages
\* A message text is carried in the state as a short id; Text gives its characters.
Text(id) ==
    \* Hello
    CASE id = "Q_hello" ->
        <<"H","e","l","l","o">>
    \* who are you
      [] id = "Q_who" ->
        <<"w","h","o"," ","a","r","e"," ","y","o","u">>
    \* What is CBAM?
      [] id = "Q_cbam" ->
        <<"W","h","a","t"," ","i","s"," ","C","B","A","M","?">>
    \* see you CBAM
      [] id = "Q_seeyou" ->
        <<"s","e","e"," ","y","o","u"," ","C","B","A","M">>
    \* tell me more
      [] id = "Q_more" ->
        <<"t","e","l","l"," ","m","e"," ","m","o","r","e">>
    \* Happy to help!
      [] id = "R_plain" ->
        <<"H","a","p","p","y"," ","t","o"," ","h","e","l","p","!">>
    \* The biodiversity strategy sets 2030 targets.
      [] id = "R_eu" ->
        <<"T","h","e"," ","b","i","o","d","i","v","e","r","s","i","t","y"," ","s","t","r","a","t","e","g","y"," ","s","e","t","s"," ","2","0","3","0"," ","t","a","r","g","e","t","s",".">>
    \* I apologize, but I encountered an error while processing your request. Please try again.
      [] id = "APOLOGY" ->
        <<"I"," ","a","p","o","l","o","g","i","z","e",","," ","b","u","t"," ","I"," ","e","n","c","o","u","n","t","e","r","e","d"," ","a","n"," ","e","r","r","o","r"," ","w","h","i","l","e"," ","p","r","o","c","e","s","s","i","n","g"," ","y","o","u","r"," ","r","e","q","u","e","s","t","."," ","P","l","e","a","s","e"," ","t","r","y"," ","a","g","a","i","n",".">>
    \* (the identity text, from its first sentence) your EU Green Deal Compliance Assistant.
      [] id = "V_IDENTITY" ->
        <<"y","o","u","r"," ","E","U"," ","G","r","e","e","n"," ","D","e","a","l"," ","C","o","m","p","l","i","a","n","c","e"," ","A","s","s","i","s","t","a","n","t",".">>
    \* Hello! I'm here to help you with EU Green Deal policies and compliance questions. How can I assist you today?
      [] id = "V_GREETING" ->
        <<"H","e","l","l","o","!"," ","I","'","m"," ","h","e","r","e"," ","t","o"," ","h","e","l","p"," ","y","o","u"," ","w","i","t","h"," ","E","U"," ","G","r","e","e","n"," ","D","e","a","l"," ","p","o","l","i","c","i","e","s"," ","a","n","d"," ","c","o","m","p","l","i","a","n","c","e"," ","q","u","e","s","t","i","o","n","s","."," ","H","o","w"," ","c","a","n"," ","I"," ","a","s","s","i","s","t"," ","y","o","u"," ","t","o","d","a","y","?">>
    \* I apologize, but I'm having trouble accessing the information right now. Please try again.
      [] id = "V_DOCS_APOLOGY" ->
        <<"I"," ","a","p","o","l","o","g","i","z","e",","," ","b","u","t"," ","I","'","m"," ","h","a","v","i","n","g"," ","t","r","o","u","b","l","e"," ","a","c","c","e","s","s","i","n","g"," ","t","h","e"," ","i","n","f","o","r","m","a","t","i","o","n"," ","r","i","g","h","t"," ","n","o","w","."," ","P","l","e","a","s","e"," ","t","r","y"," ","a","g","a","i","n",".">>
    \* I apologize, but I'm having trouble accessing current information. Please try again.
      [] id = "V_WEB_APOLOGY" ->
        <<"I"," ","a","p","o","l","o","g","i","z","e",","," ","b","u","t"," ","I","'","m"," ","h","a","v","i","n","g"," ","t","r","o","u","b","l","e"," ","a","c","c","e","s","s","i","n","g"," ","c","u","r","r","e","n","t"," ","i","n","f","o","r","m","a","t","i","o","n","."," ","P","l","e","a","s","e"," ","t","r","y"," ","a","g","a","i","n",".">>

\* the queries a client sends
Queries == {"Q_hello", "Q_who", "Q_cbam", "Q_more", "Q_seeyou"}

\* what the completion capability answers: a text without and one with an EU term,
\* or "raise" when the call fails
Completions == {"R_plain", "R_eu"}
LLMOutcomes == Completions \cup {"raise"}

\* ---------------------------------------------------- UnifiedChatAgent
\* UnifiedChatAgent._is_eu_green_query
RecentMessages(history) == IF Len(history) >= 4 THEN LastN(history, 4) ELSE history

EuContextFound(history) ==
    \E i \in 1..Len(RecentMessages(history)) :
        /\ RecentMessages(history)[i].role = "assistant"
        /\ ContainsAny(Lower(Text(RecentMessages(history)[i].content)), eu_terms)

_is_eu_green_query(query, history) ==
    LET query_lower == Strip(Lower(Text(query)))
        padded      == <<" ">> \o query_lower \o <<" ">>
    IN IF /\ Len(history) >= 1
          /\ EuContextFound(history)
          /\ (ContainsAny(query_lower, follow_up_patterns)
                \/ ContainsAny(query_lower, generic_follow_ups))
       THEN TRUE
       ELSE IF ContainsAny(query_lower, eu_keywords) THEN TRUE
       ELSE IF ContainsAny(padded, general_patterns) THEN FALSE
       ELSE ContainsAny(query_lower, policy_terms)

\* A knowledge-base source as get_context_for_query returns it and a web result as
\* WebResearchAgent.search_web returns it (web_research_agent.py:120-131): the keys
\* the agent reads.  Titles and URLs are tuples of tokens, so that a title with a
\* prefix is a longer tuple; a knowledge-base source carries no "url" key (NoUrl).
NoUrl == <<"absent">>
KBSource(t)     == [type |-> "knowledge_base", title |-> <<t>>, url |-> NoUrl]
WebResult(t, u) == [title |-> <<t>>, url |-> <<u>>]

\* one formatted web source of _format_all_sources ("url" is always a key of a web result)
FormatWebSource(source) ==
    [type |-> "EU Web Resource", title |-> <<"globe">> \o source.title, url |-> source.url]

\* the duplicate filter at the end of _format_all_sources:
\* key = source.get("url", source.get("title", ""))
SourceKey(source) == IF source.url # NoUrl THEN source.url ELSE source.title

\* the elements of l whose indices are in keep, in order
Pick(l, keep) ==
    LET F[i \in 0..Len(l)] ==
            IF i = 0 THEN <<>>
            ELSE IF i \in keep THEN Append(F[i - 1], l[i]) ELSE F[i - 1]
    IN F[Len(l)]

\* the seen-set loop `if key not in seen: seen.add(key); unique.append(source)`:
\* the first element of every key, in order; keys[i] is the key of l[i]
UniqueBy(l, keys) ==
    Pick(l, {i \in 1..Len(l) : \A j \in 1..(i - 1) : keys[j] # keys[i]})

\* the keys of the elements of a list of sources
SourceKeys(l) == [i \in 1..Len(l) |-> SourceKey(l[i])]

\* UnifiedChatAgent._format_all_sources
_format_all_sources(rag_sources, web_sources) ==
    LET formatted == rag_sources
                     \o [i \in 1..Len(web_sources) |-> FormatWebSource(web_sources[i])]
    IN UniqueBy(formatted, SourceKeys(formatted))

\* the sum of the two components without any cap
UncappedConfidence(rag_sources, web_sources, context) ==
    IF context = <<>> THEN 30
    ELSE 40 + Len(rag_sources) * 15 + Len(web_sources) * 10

\* UnifiedChatAgent._calculate_confidence, in hundredths; context is the list of the
\* parts of enhanced_context, empty when the context string is empty
_calculate_confidence(rag_sources, web_sources, context) ==
    IF context = <<>> THEN 30
    ELSE LET rag_score == Min(70, 40 + Len(rag_sources) * 15)
             web_score == Min(30, Len(web_sources) * 10)
         IN Min(95, rag_score + web_score)

\* a policy that runs a fill search whenever there is a web research agent
WebSearchAlways(is_eu, rag_sources, agent) == IF agent THEN "fill" ELSE "none"

\* the web search process_query asks for (unified_chat_agent.py:85-105): "none", or
\* the max_results of the call _perform_web_search makes.  _perform_web_search
\* returns [] without a call when there is no web_research_agent.
WebSearchWanted(is_eu, rag_sources, agent) ==
    IF ~is_eu THEN "none"
    ELSE IF Len(rag_sources) < 2 THEN (IF agent THEN "fill" ELSE "none")
    ELSE IF agent THEN "verify" ELSE "none"

WebMaxResults(mode) == IF mode = "fill" THEN 5 ELSE 2

\* WebResearchAgent.search_web: the parameters of the search request; the domain
\* filter is a key of the request only when include_domains was given (<<>> is None)
search_params(max_results, include_domains) ==
    IF include_domains # <<>>
    THEN [api |-> "web_search", max_results |-> max_results,
          include_domains |-> include_domains]
    ELSE [api |-> "web_search", max_results |-> max_results]

\* UnifiedChatAgent._perform_web_search: search_web(query=, max_results=)
_perform_web_search(max_results) == search_params(max_results, <<>>)

\* enhanced_context after the web search step (unified_chat_agent.py:83-105)
EnhancedContext(mode, rag_context, web_sources) ==
    IF mode = "fill"
    THEN IF rag_context = <<>> /\ web_sources # <<>> THEN <<"web_primary">> ELSE rag_context
    ELSE IF mode = "verify" /\ web_sources # <<>>
         THEN rag_context \o <<"web_verification">>
         ELSE rag_context

\* the dict process_query returns when the completion call succeeded (lines 142-160)
AgentSuccess(text, is_eu, rag_sources, web_sources, context) ==
    [response   |-> text,
     sources    |-> IF is_eu THEN _format_all_sources(rag_sources, web_sources) ELSE <<>>,
     confidence |-> _calculate_confidence(rag_sources, web_sources, context),
     query_type |-> IF is_eu THEN "eu_green_policy" ELSE "general_conversation"]

\* the dict process_query returns from its exception handler (lines 162-172)
AgentError ==
    [response |-> "APOLOGY", sources |-> <<>>, confidence |-> 0, query_type |-> "error"]

\* --------------------------------------------------------- ChatService
MaxHistory == 20

\* the stored list of a session, [] when the id is no key (chat_history.get(id, []))
HistoryOf(ch, s) == IF s \in DOMAIN ch THEN ch[s] ELSE <<>>

\* `if session_id not in self.chat_history: self.chat_history[session_id] = []`
EnsureSession(ch, s) == IF s \in DOMAIN ch THEN ch ELSE ch @@ (s :> <<>>)

\* a variant that creates the list and saves no user message
SaveNoUserMessage(ch, s, msg) == EnsureSession(ch, s)

\* chat_service.py:70-73: the user message is saved before the orchestrator call
SaveUserMessage(ch, s, msg) ==
    [EnsureSession(ch, s) EXCEPT ![s] = Append(@, msg)]

\* ChatService._update_chat_history_response_only
_update_chat_history_response_only(ch, s, msg) ==
    LET appended == [EnsureSession(ch, s) EXCEPT ![s] = Append(@, msg)]
    IN IF Len(appended[s]) > MaxHistory
       THEN [appended EXCEPT ![s] = LastN(@, MaxHistory)]
       ELSE appended

\* a variant that deletes the list of every session
clear_every_history(ch, s) == [k \in {} |-> <<>>]

\* ChatService.clear_chat_history: `del self.chat_history[session_id]`
clear_chat_history(ch, s) == [k \in DOMAIN ch \ {s} |-> ch[k]]

\* chat_service.py:113-121: duplicates by (title, type) removed
TitleTypeKey(source) == <<source.title, source.type>>

\* the response process_message returns after the agent answered (lines 104-141)
ChatResponse(s, agent_response) ==
    [response   |-> agent_response.response,
     session_id |-> s,
     sources    |-> UniqueBy(agent_response.sources,
                             [i \in 1..Len(agent_response.sources) |->
                                TitleTypeKey(agent_response.sources[i])]),
     confidence |-> agent_response.confidence]

\* the response of process_message's exception handler (lines 143-154)
ChatErrorResponse(s) ==
    [response |-> "APOLOGY", session_id |-> s, sources |-> <<>>, confidence |-> 0]

Idle == [pc |-> "idle"]
NoResult == [status |-> "none"]

\* a call of task p on session s is in flight
InFlight(p, s) == pm[p].pc # "idle" /\ pm[p].session_id = s

SessionBusy(s) == \E p \in Procs : InFlight(p, s)

\* process_message up to its first suspension point (lines 48-76): the history is
\* read, the user message is appended to the stored history and to the copy
\* handed to the agent.  `overlapped` records, for the properties, that another
\* request of the session was in flight during this one.
PM_Start(p, s, q) ==
    /\ pm[p].pc = "idle"
    /\ LET history == HistoryOf(chat_history, s)
           msg     == [role |-> "user", content |-> q, req |-> req_count[s] + 1]
       IN /\ chat_history' = SaveUserMessage(chat_history, s, msg)
          /\ pm' = [t \in Procs |->
                      IF t = p
                      THEN [pc |-> "rag", session_id |-> s, message |-> q,
                            req |-> req_count[s] + 1,
                            updated_history |-> Append(history, msg),
                            calls |-> <<[api |-> "knowledge_base"]>>,
                            overlapped |-> SessionBusy(s)]
                      ELSE IF InFlight(t, s) THEN [pm[t] EXCEPT !.overlapped = TRUE]
                      ELSE pm[t]]
    /\ req_count' = [req_count EXCEPT ![s] = @ + 1]
    /\ pm_result' = [pm_result EXCEPT ![p] = NoResult]
    /\ UNCHANGED <<clears, cleared_upto, web_research_agent>>
    /\ UNCHANGED <<verdanaVars, storeVars, searchVars, chunkVars, confidenceVars, poolVars,
                 routeVars>>

\* get_context_for_query raised (or get_db did): the handler at lines 143-154
\* answers; the stored history is left as it is
PM_RagRaise(p) ==
    /\ pm[p].pc = "rag"
    /\ pm' = [pm EXCEPT ![p] = Idle]
    /\ pm_result' = [pm_result EXCEPT ![p] =
                       [status |-> "returned", message |-> pm[p].message,
                        session_id |-> pm[p].session_id, req |-> pm[p].req,
                        overlapped |-> pm[p].overlapped,
                        path |-> "handler", query_type |-> "error",
                        calls |-> pm[p].calls,
                        response |-> ChatErrorResponse(pm[p].session_id)]]
    /\ UNCHANGED <<chat_history, req_count, clears, cleared_upto, web_research_agent>>
    /\ UNCHANGED <<verdanaVars, storeVars, searchVars, chunkVars, confidenceVars, poolVars,
                 routeVars>>

\* get_context_for_query returned rag_sources (and a context that is empty exactly
\* when they are); process_query starts: it classifies the query and either awaits
\* a web search or goes on to the completion call
PM_RagReturn(p, rag_sources) ==
    /\ pm[p].pc = "rag"
    /\ LET is_eu == _is_eu_green_query(pm[p].message, pm[p].updated_history)
           mode  == WebSearchWanted(is_eu, rag_sources, web_research_agent)
       IN pm' = [pm EXCEPT ![p] =
                   [pc |-> IF mode = "none" THEN "llm" ELSE "web",
                    session_id |-> pm[p].session_id, message |-> pm[p].message,
                    req |-> pm[p].req, updated_history |-> pm[p].updated_history,
                    overlapped |-> pm[p].overlapped,
                    rag_sources |-> rag_sources,
                    rag_context |-> IF rag_sources = <<>> THEN <<>> ELSE <<"rag">>,
                    is_eu |-> is_eu, mode |-> mode, web_sources |-> <<>>,
                    calls |-> IF mode = "none" THEN pm[p].calls
                              ELSE Append(pm[p].calls,
                                          _perform_web_search(WebMaxResults(mode)))]]
    /\ UNCHANGED <<chat_history, pm_result, req_count, clears, cleared_upto, web_research_agent>>
    /\ UNCHANGED <<verdanaVars, storeVars, searchVars, chunkVars, confidenceVars, poolVars,
                 routeVars>>

\* _perform_web_search returned (a failed search returns [])
PM_WebReturn(p, results) ==
    /\ pm[p].pc = "web"
    /\ Len(results) <= WebMaxResults(pm[p].mode)
    /\ pm' = [pm EXCEPT ![p].pc = "llm", ![p].web_sources = results]
    /\ UNCHANGED <<chat_history, pm_result, req_count, clears, cleared_upto, web_research_agent>>
    /\ UNCHANGED <<verdanaVars, storeVars, searchVars, chunkVars, confidenceVars, poolVars,
                 routeVars>>

\* unified_chat_agent.py:116-130: the list handed to the completion call: the system
\* prompt, the user and assistant turns among the last six of history, the query
SystemMessage == [role |-> "system", content |-> "SYSTEM_PROMPT"]

ChatRole(msg) == msg.role \in {"user", "assistant"}

ConversationMessages(query, history) ==
    LET recent_history == SelectSeq(LastN(history, 6), ChatRole)
    IN <<SystemMessage>>
          \o [i \in 1..Len(recent_history) |->
                 [role |-> recent_history[i].role, content |-> recent_history[i].content]]
          \o <<[role |-> "user", content |-> query]>>

\* the completion call and the rest of process_query and process_message
\* (unified_chat_agent.py:107-172, chat_service.py:104-141): a failed completion makes
\* the agent answer with its error dict, which process_message stores and returns
PM_Complete(p, llm) ==
    /\ pm[p].pc = "llm"
    /\ LET context == EnhancedContext(pm[p].mode, pm[p].rag_context, pm[p].web_sources)
           agent_response ==
               IF llm = "raise" THEN AgentError
               ELSE AgentSuccess(llm, pm[p].is_eu, pm[p].rag_sources,
                                 pm[p].web_sources, context)
           reply == [role |-> "assistant", content |-> agent_response.response,
                     req |-> pm[p].req]
       IN /\ chat_history' =
                 _update_chat_history_response_only(chat_history, pm[p].session_id, reply)
          /\ pm_result' = [pm_result EXCEPT ![p] =
                             [status |-> "returned", message |-> pm[p].message,
                              session_id |-> pm[p].session_id, req |-> pm[p].req,
                              overlapped |-> pm[p].overlapped,
                              rag_sources |-> pm[p].rag_sources,
                              history |-> pm[p].updated_history,
                              rag_context |-> pm[p].rag_context,
                              web_sources |-> pm[p].web_sources,
                              enhanced_context |-> context,
                              messages |-> ConversationMessages(pm[p].message,
                                                                pm[p].updated_history),
                              path |-> IF llm = "raise" THEN "completion_failed"
                                       ELSE "answered",
                              query_type |-> IF pm[p].is_eu THEN "eu_green_policy"
                                             ELSE "general_conversation",
                              calls |-> Append(pm[p].calls, [api |-> "completion"]),
                              response |-> ChatResponse(pm[p].session_id,
                                                        agent_response)]]
    /\ pm' = [pm EXCEPT ![p] = Idle]
    /\ UNCHANGED <<req_count, clears, cleared_upto, web_research_agent>>
    /\ UNCHANGED <<verdanaVars, storeVars, searchVars, chunkVars, confidenceVars, poolVars,
                 routeVars>>

\* ChatService.clear_chat_history(s), a handler without a suspension point
PM_Clear(s) ==
    /\ chat_history' = clear_chat_history(chat_history, s)
    /\ clears' = clears + 1
    /\ cleared_upto' = [cleared_upto EXCEPT ![s] = req_count[s]]
    /\ pm' = [t \in Procs |->
                IF InFlight(t, s) THEN [pm[t] EXCEPT !.overlapped = TRUE] ELSE pm[t]]
    /\ UNCHANGED <<pm_result, req_count, web_research_agent>>
    /\ UNCHANGED <<verdanaVars, storeVars, searchVars, chunkVars, confidenceVars, poolVars,
                 routeVars>>

\* -------------------------------------------------------- VerdanaAgent
\* VerdanaAgent._classify_query (it reads the query alone)
_classify_query(query) ==
    LET query_lower == Strip(Lower(Text(query)))
    IN IF ContainsAny(query_lower, identity_keywords) THEN "identity"
       ELSE IF /\ WordCount(Text(query)) <= 3
               /\ \/ \E i \in 1..Len(casual_patterns_exact) :
                        query_lower = casual_patterns_exact[i]
                  \/ \E i \in 1..Len(casual_patterns_prefix) :
                        StartsWith(query_lower, casual_patterns_prefix[i])
            THEN "casual"
       ELSE IF ContainsAny(query_lower, eu_green_keywords) THEN "eu_green_deal"
       ELSE IF ContainsAny(query_lower, policy_keywords) THEN "eu_green_deal"
       ELSE IF WordCount(Text(query)) > 5 THEN "eu_green_deal"
       ELSE "casual"

Languages == {"en", "ro"}

\* what the language-detection completion yields: a valid code, a text that is no
\* language code ("invalid"), or a failed call ("raise")
DetectionOutcomes == Languages \cup {"invalid", "raise"}

\* _detect_and_set_language without its first-message test: every request detects
_detect_on_every_request(languages, contexts, s, default_language, detection) ==
    LET lang == IF detection \in Languages THEN detection ELSE default_language
    IN << [k \in DOMAIN languages \cup {s} |-> IF k = s THEN lang ELSE languages[k]],
          lang >>

\* VerdanaAgent._detect_and_set_language: <<session_languages afterwards, the language
\* returned>>.  contexts is session_contexts after the session's list was created.
_detect_and_set_language(languages, contexts, s, default_language, detection) ==
    IF s \notin DOMAIN languages \/ Len(HistoryOf(contexts, s)) = 0
    THEN LET lang == IF detection \in Languages THEN detection ELSE default_language
         IN << [k \in DOMAIN languages \cup {s} |-> IF k = s THEN lang ELSE languages[k]],
               lang >>
    ELSE << languages, languages[s] >>

\* a search_documents result and a WebService result: the keys the agent reads
RagResult(f, sim) == [title |-> <<f>>, filename |-> <<f>>, similarity |-> sim]
WebServiceResult(t, u, origin) == [title |-> t, url |-> u, source |-> origin]

WebSearchSummary == <<"Web Search Summary">>

\* WebService.search_for_verification: the payload of the search request
verification_domains ==
    <<"europa.eu", "ec.europa.eu", "consilium.europa.eu", "europarl.europa.eu",
      "eur-lex.europa.eu">>

search_for_verification ==
    [api |-> "web_verification", include_domains |-> verification_domains]

\* the canonical source both response builders put first (lines 460-466, 598-604)
OfficialSource ==
    [type |-> "official_source",
     title |-> <<"European Green Deal - Official EU Documentation">>,
     url |-> <<"https://commission.europa.eu/publications/delivering-european-green-deal_en">>]

\* verdana_agent.py:468-483: documents by distinct filename among the first five
\* results, the loop left once three are added
DocFilenameKey(doc) == doc.filename

KnowledgeBaseSources(rag_results) ==
    LET first  == FirstN(rag_results, 5)
        unique == UniqueBy(first, [i \in 1..Len(first) |-> DocFilenameKey(first[i])])
        capped == FirstN(unique, 3)
    IN [i \in 1..Len(capped) |->
          [type |-> "knowledge_base", title |-> capped[i].title,
           filename |-> capped[i].filename, similarity |-> capped[i].similarity]]

\* verdana_agent.py:485-519: valid web results by distinct URL, at most five
ValidWebResult(result) ==
    result.title # <<>> /\ result.url # <<>> /\ result.title # WebSearchSummary

WebUrlKey(result) == result.url

WebSourcesWithDocs(web_results) ==
    LET valid  == SelectSeq(web_results, ValidWebResult)
        capped == FirstN(UniqueBy(valid, [i \in 1..Len(valid) |-> WebUrlKey(valid[i])]), 5)
    IN [i \in 1..Len(capped) |->
          [type |-> IF capped[i].source = "web_search" THEN "web_verification"
                    ELSE "web_search",
           title |-> capped[i].title, url |-> capped[i].url]]

\* verdana_agent.py:606-618: the first four web results, the summary and the
\* results without URL left out
CitableWebResult(result) == result.title # WebSearchSummary /\ result.url # <<>>

WebSourcesWebOnly(web_results) ==
    LET kept == SelectSeq(FirstN(web_results, 4), CitableWebResult)
    IN [i \in 1..Len(kept) |->
          [type |-> "web_search", title |-> kept[i].title, url |-> kept[i].url]]

\* VerdanaAgent._generate_response_with_docs
_generate_response_with_docs(rag_results, web_results, llm) ==
    IF llm = "raise"
    THEN [response |-> "V_DOCS_APOLOGY", sources |-> <<>>]
    ELSE [response |-> llm,
          sources  |-> <<OfficialSource>> \o KnowledgeBaseSources(rag_results)
                          \o WebSourcesWithDocs(web_results)]

\* VerdanaAgent._generate_response_web_only
_generate_response_web_only(web_results, llm) ==
    IF llm = "raise"
    THEN [response |-> "V_WEB_APOLOGY", sources |-> <<>>]
    ELSE [response |-> llm,
          sources  |-> <<OfficialSource>> \o WebSourcesWebOnly(web_results)]

\* VerdanaAgent._handle_casual_query
_handle_casual_query(llm) ==
    IF llm = "raise"
    THEN [response |-> "V_GREETING", sources |-> <<>>]
    ELSE [response |-> llm, sources |-> <<>>]

\* VerdanaAgent._handle_identity_query: a fixed text, no completion call
_handle_identity_query == [response |-> "V_IDENTITY", sources |-> <<>>]

\* verdana_agent.py:358-385: the response builder chosen after the searches
has_relevant_docs(rag_results) ==
    Len(rag_results) > 0 /\ \E i \in 1..Len(rag_results) : rag_results[i].similarity > 30

\* verdana_agent.py:105-114: the assistant turn is appended and the list trimmed
AddAssistantResponse(contexts, s, msg) ==
    LET appended == [contexts EXCEPT ![s] = Append(@, msg)]
    IN IF Len(appended[s]) > MaxHistory
       THEN [appended EXCEPT ![s] = LastN(@, MaxHistory)]
       ELSE appended

\* process_query up to its first suspension point.  Language detection, the
\* classification and the identity and casual handlers call nothing that yields,
\* so an identity or casual query is answered within this step; an EU query goes
\* on to await search_documents.
V_Start(p, s, q, language, detection, llm) ==
    /\ vq[p].pc = "idle"
    /\ LET contexts   == EnsureSession(session_contexts, s)
           detected   == _detect_and_set_language(session_languages, contexts, s,
                                                  language, detection)
           query_type == _classify_query(q)
           msg        == [role |-> "user", content |-> q, req |-> v_count[s] + 1,
                          language |-> detected[2], hint |-> language]
           with_user  == [contexts EXCEPT ![s] = Append(@, msg)]
           response_data == IF query_type = "identity" THEN _handle_identity_query
                            ELSE _handle_casual_query(llm)
           reply      == [role |-> "assistant", content |-> response_data.response,
                          req |-> v_count[s] + 1]
       IN /\ session_languages' = detected[1]
          /\ IF query_type = "eu_green_deal"
             THEN /\ session_contexts' = with_user
                  /\ vq' = [vq EXCEPT ![p] =
                              [pc |-> "rag", session_id |-> s, query |-> q,
                               req |-> v_count[s] + 1, language |-> detected[2],
                               calls |-> <<[api |-> "knowledge_base"]>>]]
                  /\ v_result' = [v_result EXCEPT ![p] = NoResult]
             ELSE /\ session_contexts' = AddAssistantResponse(with_user, s, reply)
                  /\ vq' = vq
                  /\ v_result' = [v_result EXCEPT ![p] =
                        [status |-> "returned", query |-> q, query_type |-> query_type,
                         session_id |-> s, req |-> v_count[s] + 1,
                         completion_failed |-> (query_type = "casual" /\ llm = "raise"),
                         calls |-> IF query_type = "casual"
                                   THEN <<[api |-> "completion"]>> ELSE <<>>,
                         response |-> response_data]]
    /\ v_count' = [v_count EXCEPT ![s] = @ + 1]
    /\ UNCHANGED <<chatVars, storeVars, searchVars, chunkVars, confidenceVars, poolVars,
                 routeVars>>

\* search_documents returned (a failed search returns [])
V_RagReturn(p, rag_results) ==
    /\ vq[p].pc = "rag"
    /\ vq' = [vq EXCEPT ![p] =
                [pc |-> "verify", session_id |-> vq[p].session_id, query |-> vq[p].query,
                 req |-> vq[p].req, language |-> vq[p].language,
                 rag_results |-> rag_results,
                 calls |-> Append(vq[p].calls, search_for_verification)]]
    /\ UNCHANGED <<session_contexts, session_languages, v_result, v_count>>
    /\ UNCHANGED <<chatVars, storeVars, searchVars, chunkVars, confidenceVars, poolVars,
                 routeVars>>

\* search_for_verification returned
V_VerifyReturn(p, web_results) ==
    /\ vq[p].pc = "verify"
    /\ vq' = [vq EXCEPT ![p] =
                [pc |-> "broad", session_id |-> vq[p].session_id, query |-> vq[p].query,
                 req |-> vq[p].req, language |-> vq[p].language,
                 rag_results |-> vq[p].rag_results, web_results |-> web_results,
                 calls |-> Append(vq[p].calls, [api |-> "web_broad"])]]
    /\ UNCHANGED <<session_contexts, session_languages, v_result, v_count>>
    /\ UNCHANGED <<chatVars, storeVars, searchVars, chunkVars, confidenceVars, poolVars,
                 routeVars>>

\* search_current_news returned: the response is generated (a synchronous
\* completion call), the assistant turn stored and the response returned
V_BroadReturn(p, enhanced_web_results, llm) ==
    /\ vq[p].pc = "broad"
    /\ LET all_web_results == vq[p].web_results \o enhanced_web_results
           response_data ==
               IF has_relevant_docs(vq[p].rag_results)
               THEN _generate_response_with_docs(vq[p].rag_results, all_web_results, llm)
               ELSE _generate_response_web_only(all_web_results, llm)
           reply == [role |-> "assistant", content |-> response_data.response,
                     req |-> vq[p].req]
       IN /\ session_contexts' =
                 AddAssistantResponse(session_contexts, vq[p].session_id, reply)
          /\ v_result' = [v_result EXCEPT ![p] =
                [status |-> "returned", query |-> vq[p].query,
                 session_id |-> vq[p].session_id, req |-> vq[p].req,
                 query_type |-> "eu_green_deal",
                 completion_failed |-> (llm = "raise"),
                 kb_matched |-> has_relevant_docs(vq[p].rag_results),
                 calls |-> Append(vq[p].calls, [api |-> "completion"]),
                 response |-> response_data]]
    /\ vq' = [vq EXCEPT ![p] = Idle]
    /\ UNCHANGED <<session_languages, v_count>>
    /\ UNCHANGED <<chatVars, storeVars, searchVars, chunkVars, confidenceVars, poolVars,
                 routeVars>>

\* ------------------------------------------------ the tables and RAGService
\* the contents a client uploads; "" is a file that is missing or yields no text
Contents == {"c1", "c2"}

\* hashlib.md5(content.encode()).hexdigest(): a digest, equal for equal contents
\* and distinct for the contents of this model
FileHash(content) == <<"md5", content>>

\* the chunks the ingest paths cut a content into (RAGService._create_chunks,
\* DocumentService._chunk_document): here their number and their texts by position
ChunkCount(content) == IF content = "c1" THEN 2 ELSE 1

DocumentChunks(content) == [i \in 1..ChunkCount(content) |-> <<content, i>>]

\* upload_document embeds and inserts the chunks in batches of batch_size
batch_size == 10

\* the batch chunks[i:i + batch_size], i counted from 1
Batch(chunks, i) == SubSeq(chunks, i, Min(Len(chunks), i + batch_size - 1))

\* the id the documents table gives its n-th row
DocumentRowId(n) == <<"id", n>>

\* INSERT INTO documents ... RETURNING id
InsertDocument(table, id, file_hash) == table \cup {[id |-> id, file_hash |-> file_hash]}

\* INSERT INTO document_chunks
InsertChunk(table, id, document_id, content) ==
    table \cup {[id |-> id, document_id |-> document_id, content |-> content]}

\* DELETE FROM document_chunks WHERE document_id = $1
DeleteChunksOf(table, document_id) == {c \in table : c.document_id # document_id}

\* DELETE FROM documents WHERE id = $1
DeleteDocumentRow(table, id) == {d \in table : d.id # id}

\* a documents row of that id exists: the foreign key of document_chunks.document_id
\* lets a chunk in only then, and DELETE FROM documents answers "DELETE 1" only then
DocumentExists(docs, document_id) == \E d \in docs : d.id = document_id

RsResult(op, arg, value, failed_chunk) ==
    [status |-> "returned", op |-> op, arg |-> arg, value |-> value,
     failed_chunk |-> failed_chunk]

\* upload_document up to its first database round trip (lines 280-305): a missing
\* file or an empty text returns False at once
U_Start(p, content) ==
    /\ rs[p].pc = "idle"
    /\ IF content = ""
       THEN /\ rs_result' = [rs_result EXCEPT ![p] = RsResult("upload", content, FALSE, 0)]
            /\ rs' = rs
       ELSE /\ rs' = [rs EXCEPT ![p] = [pc |-> "exists", content |-> content,
                                         file_hash |-> FileHash(content)]]
            /\ rs_result' = [rs_result EXCEPT ![p] = NoResult]
    /\ store_ops' = store_ops + 1
    /\ UNCHANGED <<documents, document_chunks, next_id, documents_db, ds, ds_result>>
    /\ UNCHANGED <<chatVars, verdanaVars, searchVars, chunkVars, confidenceVars, poolVars,
                 routeVars>>

\* SELECT id FROM documents WHERE file_hash = $1 answered (lines 304-314): a
\* document of that hash makes upload_document return True; ok = FALSE is the
\* connection or the query failing, which the handler turns into False
U_Exists(p, ok) ==
    /\ rs[p].pc = "exists"
    /\ IF ~ok
       THEN /\ rs' = [rs EXCEPT ![p] = Idle]
            /\ rs_result' = [rs_result EXCEPT ![p] =
                                RsResult("upload", rs[p].content, FALSE, 0)]
       ELSE IF \E d \in documents : d.file_hash = rs[p].file_hash
       THEN /\ rs' = [rs EXCEPT ![p] = Idle]
            /\ rs_result' = [rs_result EXCEPT ![p] =
                                RsResult("upload", rs[p].content, TRUE, 0)]
       ELSE /\ rs' = [rs EXCEPT ![p].pc = "insert_doc"]
            /\ rs_result' = rs_result
    /\ UNCHANGED <<documents, document_chunks, next_id, store_ops, documents_db, ds, ds_result>>
    /\ UNCHANGED <<chatVars, verdanaVars, searchVars, chunkVars, confidenceVars, poolVars,
                 routeVars>>

\* INSERT INTO documents answered (lines 316-337): the chunks are created and the
\* first embedding is awaited
U_InsertDoc(p, ok) ==
    /\ rs[p].pc = "insert_doc"
    /\ IF ~ok
       THEN /\ rs' = [rs EXCEPT ![p] = Idle]
            /\ rs_result' = [rs_result EXCEPT ![p] =
                                RsResult("upload", rs[p].content, FALSE, 0)]
            /\ UNCHANGED <<documents, next_id>>
       ELSE /\ documents' = InsertDocument(documents, DocumentRowId(next_id), rs[p].file_hash)
            /\ next_id' = next_id + 1
            /\ rs' = [rs EXCEPT ![p] =
                        [pc |-> "embed", content |-> rs[p].content,
                         file_hash |-> rs[p].file_hash, doc_id |-> DocumentRowId(next_id),
                         chunks |-> DocumentChunks(rs[p].content),
                         i |-> 1, k |-> 1]]
            /\ rs_result' = rs_result
    /\ UNCHANGED <<document_chunks, store_ops, documents_db, ds, ds_result>>
    /\ UNCHANGED <<chatVars, verdanaVars, searchVars, chunkVars, confidenceVars, poolVars,
                 routeVars>>

\* _create_embedding answered for chunk k of the batch that starts at i (lines
\* 346-349): it raises when the embedding call fails, and upload_document ends
U_Embed(p, ok) ==
    /\ rs[p].pc = "embed"
    /\ IF ~ok
       THEN /\ rs' = [rs EXCEPT ![p] = Idle]
            /\ rs_result' = [rs_result EXCEPT ![p] =
                                RsResult("upload", rs[p].content, FALSE,
                                         rs[p].i + rs[p].k - 1)]
       ELSE /\ rs' = IF rs[p].k < Len(Batch(rs[p].chunks, rs[p].i))
                     THEN [rs EXCEPT ![p].k = @ + 1]
                     ELSE [rs EXCEPT ![p].pc = "insert", ![p].k = 1]
            /\ rs_result' = rs_result
    /\ UNCHANGED <<documents, document_chunks, next_id, store_ops, documents_db, ds, ds_result>>
    /\ UNCHANGED <<chatVars, verdanaVars, searchVars, chunkVars, confidenceVars, poolVars,
                 routeVars>>

\* INSERT INTO document_chunks answered for chunk k of the batch (lines 351-367):
\* after the last chunk of the last batch upload_document returns True.  The insert
\* fails when the database does or when the document row is gone.
U_InsertChunk(p, ok) ==
    /\ rs[p].pc = "insert"
    /\ LET batch == Batch(rs[p].chunks, rs[p].i)
           index == rs[p].i + rs[p].k - 1
       IN IF ~ok \/ ~DocumentExists(documents, rs[p].doc_id)
          THEN /\ rs' = [rs EXCEPT ![p] = Idle]
               /\ rs_result' = [rs_result EXCEPT ![p] =
                                   RsResult("upload", rs[p].content, FALSE, index)]
               /\ UNCHANGED <<document_chunks, next_id>>
          ELSE /\ document_chunks' = InsertChunk(document_chunks, next_id,
                                                 rs[p].doc_id, rs[p].chunks[index])
               /\ next_id' = next_id + 1
               /\ IF rs[p].k < Len(batch)
                  THEN /\ rs' = [rs EXCEPT ![p].k = @ + 1]
                       /\ rs_result' = rs_result
                  ELSE IF rs[p].i + batch_size <= Len(rs[p].chunks)
                  THEN /\ rs' = [rs EXCEPT ![p].pc = "embed", ![p].k = 1,
                                           ![p].i = @ + batch_size]
                       /\ rs_result' = rs_result
                  ELSE /\ rs' = [rs EXCEPT ![p] = Idle]
                       /\ rs_result' = [rs_result EXCEPT ![p] =
                                           RsResult("upload", rs[p].content, TRUE, 0)]
    /\ UNCHANGED <<documents, store_ops, documents_db, ds, ds_result>>
    /\ UNCHANGED <<chatVars, verdanaVars, searchVars, chunkVars, confidenceVars, poolVars,
                 routeVars>>

\* RAGService.delete_document up to its first round trip
D_Start(p, document_id) ==
    /\ rs[p].pc = "idle"
    /\ rs' = [rs EXCEPT ![p] = [pc |-> "delete_chunks", document_id |-> document_id]]
    /\ rs_result' = [rs_result EXCEPT ![p] = NoResult]
    /\ store_ops' = store_ops + 1
    /\ UNCHANGED <<documents, document_chunks, next_id, documents_db, ds, ds_result>>
    /\ UNCHANGED <<chatVars, verdanaVars, searchVars, chunkVars, confidenceVars, poolVars,
                 routeVars>>

\* DELETE FROM document_chunks answered (lines 526-529)
D_DeleteChunks(p, ok) ==
    /\ rs[p].pc = "delete_chunks"
    /\ IF ~ok
       THEN /\ rs' = [rs EXCEPT ![p] = Idle]
            /\ rs_result' = [rs_result EXCEPT ![p] =
                                RsResult("delete", rs[p].document_id, FALSE, 0)]
            /\ UNCHANGED document_chunks
       ELSE /\ document_chunks' = DeleteChunksOf(document_chunks, rs[p].document_id)
            /\ rs' = [rs EXCEPT ![p].pc = "delete_doc"]
            /\ rs_result' = rs_result
    /\ UNCHANGED <<documents, next_id, store_ops, documents_db, ds, ds_result>>
    /\ UNCHANGED <<chatVars, verdanaVars, searchVars, chunkVars, confidenceVars, poolVars,
                 routeVars>>

\* DELETE FROM documents answered (lines 531-543): "DELETE 1" when the row was
\* there; the chunks inserted for it since the first statement go with the row
D_DeleteDoc(p, ok) ==
    /\ rs[p].pc = "delete_doc"
    /\ IF ~ok
       THEN /\ rs_result' = [rs_result EXCEPT ![p] =
                                RsResult("delete", rs[p].document_id, FALSE, 0)]
            /\ UNCHANGED <<documents, document_chunks>>
       ELSE /\ documents' = DeleteDocumentRow(documents, rs[p].document_id)
            /\ document_chunks' = DeleteChunksOf(document_chunks, rs[p].document_id)
            /\ rs_result' = [rs_result EXCEPT ![p] =
                                RsResult("delete", rs[p].document_id,
                                         DocumentExists(documents, rs[p].document_id), 0)]
    /\ rs' = [rs EXCEPT ![p] = Idle]
    /\ UNCHANGED <<next_id, store_ops, documents_db, ds, ds_result>>
    /\ UNCHANGED <<chatVars, verdanaVars, searchVars, chunkVars, confidenceVars, poolVars,
                 routeVars>>

\* ------------------------------------------------------ DocumentService
\* str(uuid.uuid4()): an id no other call has
NewDocumentId(n) == <<"uuid", n>>

\* the metadata keys of a chunk that the store is asked about later
ChunkMetadata(document_id, i, total) ==
    [document_id |-> document_id, chunk_index |-> i - 1, total_chunks |-> total]

\* rag_service.add_document_chunk(chunk, metadata, db): the chunk is stored with its
\* metadata
add_document_chunk(table, id, chunk, metadata) ==
    InsertChunk(table, id, metadata.document_id, chunk)

\* rag_service.delete_document_chunks(document_id, db): the chunks of the document
\* are deleted and True is returned, or nothing is deleted and False is returned
delete_document_chunks(table, document_id, outcome) ==
    IF outcome = "deleted"
    THEN [table |-> DeleteChunksOf(table, document_id), success |-> TRUE]
    ELSE [table |-> table, success |-> FALSE]

DeleteOutcomes == {"deleted", "failed", "raise"}

\* the entry process_document stores in documents_db (lines 94-106)
DocumentInfo(document_id, content, chunk_count) ==
    [id |-> document_id, content |-> content, status |-> "processed",
     chunk_count |-> chunk_count]

\* process_document up to the first add_document_chunk call (lines 45-85): a
\* content without text is answered "failed" at once
PD_Start(p, content) ==
    /\ ds[p].pc = "idle"
    /\ IF content = ""
       THEN /\ ds_result' = [ds_result EXCEPT ![p] =
                                [status |-> "returned", op |-> "process",
                                 content |-> content, document_id |-> NewDocumentId(next_id),
                                 state |-> "failed", chunk_count |-> 0, failed |-> {}]]
            /\ ds' = ds
       ELSE /\ ds' = [ds EXCEPT ![p] =
                        [pc |-> "add", content |-> content,
                         document_id |-> NewDocumentId(next_id),
                         chunks |-> DocumentChunks(content),
                         i |-> 1, chunk_count |-> 0, failed |-> {}]]
            /\ ds_result' = [ds_result EXCEPT ![p] = NoResult]
    /\ next_id' = next_id + 1
    /\ store_ops' = store_ops + 1
    /\ UNCHANGED <<documents, document_chunks, rs, rs_result, documents_db>>
    /\ UNCHANGED <<chatVars, verdanaVars, searchVars, chunkVars, confidenceVars, poolVars,
                 routeVars>>

\* add_document_chunk answered for chunk i (lines 74-89): a failure is logged and
\* the loop goes on; after the last chunk the document info is stored and the
\* result returned (lines 91-109)
PD_AddChunk(p, ok) ==
    /\ ds[p].pc = "add"
    /\ LET chunk_count == IF ok THEN ds[p].chunk_count + 1 ELSE ds[p].chunk_count
           failed      == IF ok THEN ds[p].failed ELSE ds[p].failed \cup {ds[p].i}
           metadata    == ChunkMetadata(ds[p].document_id, ds[p].i, Len(ds[p].chunks))
       IN /\ IF ok
             THEN /\ document_chunks' = add_document_chunk(document_chunks, next_id,
                                                           ds[p].chunks[ds[p].i], metadata)
                  /\ next_id' = next_id + 1
             ELSE UNCHANGED <<document_chunks, next_id>>
          /\ IF ds[p].i < Len(ds[p].chunks)
             THEN /\ ds' = [ds EXCEPT ![p].i = @ + 1, ![p].chunk_count = chunk_count,
                                      ![p].failed = failed]
                  /\ UNCHANGED <<documents_db, ds_result>>
             ELSE /\ documents_db' =
                        (ds[p].document_id :>
                            DocumentInfo(ds[p].document_id, ds[p].content, chunk_count))
                        @@ documents_db
                  /\ ds_result' = [ds_result EXCEPT ![p] =
                        [status |-> "returned", op |-> "process",
                         content |-> ds[p].content, document_id |-> ds[p].document_id,
                         state |-> "processed", chunk_count |-> chunk_count,
                         failed |-> failed]]
                  /\ ds' = [ds EXCEPT ![p] = Idle]
    /\ UNCHANGED <<documents, store_ops, rs, rs_result>>
    /\ UNCHANGED <<chatVars, verdanaVars, searchVars, chunkVars, confidenceVars, poolVars,
                 routeVars>>

\* DocumentService.delete_document up to the delete_document_chunks call
DD_Start(p, document_id) ==
    /\ ds[p].pc = "idle"
    /\ ds' = [ds EXCEPT ![p] = [pc |-> "delete", document_id |-> document_id]]
    /\ ds_result' = [ds_result EXCEPT ![p] = NoResult]
    /\ store_ops' = store_ops + 1
    /\ UNCHANGED <<documents, document_chunks, next_id, rs, rs_result, documents_db>>
    /\ UNCHANGED <<chatVars, verdanaVars, searchVars, chunkVars, confidenceVars, poolVars,
                 routeVars>>

\* delete_document_chunks answered (lines 231-245): when the id is a key of
\* documents_db the entry is deleted and True returned, else what the chunk
\* deletion returned; an exception makes the result False
DD_Return(p, outcome) ==
    /\ ds[p].pc = "delete"
    /\ LET d       == ds[p].document_id
           deleted == delete_document_chunks(document_chunks, d, outcome)
       IN IF outcome = "raise"
          THEN /\ ds_result' = [ds_result EXCEPT ![p] =
                     [status |-> "returned", op |-> "delete", document_id |-> d,
                      value |-> FALSE, record_removed |-> FALSE]]
               /\ UNCHANGED <<document_chunks, documents_db>>
          ELSE /\ document_chunks' = deleted.table
               /\ IF d \in DOMAIN documents_db
                  THEN /\ documents_db' = [k \in DOMAIN documents_db \ {d} |-> documents_db[k]]
                       /\ ds_result' = [ds_result EXCEPT ![p] =
                             [status |-> "returned", op |-> "delete", document_id |-> d,
                              value |-> TRUE, record_removed |-> TRUE]]
                  ELSE /\ documents_db' = documents_db
                       /\ ds_result' = [ds_result EXCEPT ![p] =
                             [status |-> "returned", op |-> "delete", document_id |-> d,
                              value |-> deleted.success, record_removed |-> FALSE]]
    /\ ds' = [ds EXCEPT ![p] = Idle]
    /\ UNCHANGED <<documents, next_id, store_ops, rs, rs_result>>
    /\ UNCHANGED <<chatVars, verdanaVars, searchVars, chunkVars, confidenceVars, poolVars,
                 routeVars>>

\* ------------------------------------------- RAGService.search_documents
\* the similarities of the stored chunks to the query, in hundredths; 30 is the
\* similarity the filter `similarity > 0.3` still rejects
Sims == {30, 50, 90}
SimilarityFloor == 30

\* how many chunks a store of the model holds of one similarity
ChunkCounts == {0, 1, 2, 50}

\* the sum of a function over Sims
RECURSIVE SumOver(_, _)
SumOver(f, S) ==
    IF S = {} THEN 0
    ELSE LET c == CHOOSE x \in S : TRUE IN f[c] + SumOver(f, S \ {c})

StoreSize(store) == SumOver(store, Sims)

\* LIMIT $1 of the sampling query: min(1000, top_k * 50)
SampleLimit(k) == Min(1000, k * 50)

\* what `ORDER BY RANDOM() LIMIT n` can return: any n rows of the table (all of
\* them when the table holds no more), given by the rows it leaves out
Samples(store, k) ==
    LET omitted == StoreSize(store) - Min(SampleLimit(k), StoreSize(store))
    IN { [c \in Sims |-> store[c] - out[c]] :
            out \in { o \in [Sims -> 0..omitted] :
                         /\ \A c \in Sims : o[c] <= store[c]
                         /\ SumOver(o, Sims) = omitted } }

Repeat(x, n) == [i \in 1..n |-> x]

\* the sims of S in descending order
RECURSIVE Descending(_)
Descending(S) ==
    IF S = {} THEN <<>>
    ELSE LET m == CHOOSE x \in S : \A y \in S : y <= x
         IN <<m>> \o Descending(S \ {m})

\* lines 193-217: the sampled rows above the floor, sorted by descending
\* similarity, the first top_k of them
RankSample(sample, k) ==
    LET order == Descending({c \in Sims : c > SimilarityFloor})
        F[i \in 0..Len(order)] ==
            IF i = 0 THEN <<>>
            ELSE F[i - 1] \o Repeat(order[i], sample[order[i]])
    IN FirstN(F[Len(order)], k)

\* one search_documents call: the sample the database returns is ranked; a failed
\* embedding call or query makes the result [] (lines 222-227)
search_documents(sample, ok) ==
    /\ search_results' = Append(search_results,
                                [ok |-> ok,
                                 hits |-> IF ok THEN RankSample(sample, top_k) ELSE <<>>])
    /\ UNCHANGED <<store_sims, top_k>>
    /\ UNCHANGED <<chatVars, verdanaVars, storeVars, chunkVars, confidenceVars, poolVars,
                 routeVars>>

\* ------------------------------------------- RAGService._create_chunks
\* Python's slice index: a negative index counts from the end, both are clipped
PyIndex(i, n) ==
    IF i < 0 THEN (IF i + n < 0 THEN 0 ELSE i + n) ELSE IF i > n THEN n ELSE i

\* s[a:b]
Slice(s, a, b) ==
    LET lo == PyIndex(a, Len(s))
        hi == PyIndex(b, Len(s))
    IN IF lo >= hi THEN <<>> ELSE SubSeq(s, lo + 1, hi)

\* s.rfind(c, a, b): the highest 0-based index of c in s[a:b], -1 if there is none
rfind(s, c, a, b) ==
    LET lo  == PyIndex(a, Len(s))
        hi  == PyIndex(b, Len(s))
        idx == {i \in lo..(hi - 1) : s[i + 1] = c}
    IN IF idx = {} THEN -1 ELSE CHOOSE i \in idx : \A j \in idx : i >= j

Max3(a, b, c) == IF a >= b /\ a >= c THEN a ELSE IF b >= c THEN b ELSE c

\* re.sub(r'\s+', ' ', text.strip()): runs of blanks become one blank
NormalizeWhitespace(text) ==
    LET stripped == Strip(text)
        kept == {i \in 1..Len(stripped) : stripped[i] # " " \/ stripped[i - 1] # " "}
    IN IF kept = 1..Len(stripped) THEN stripped ELSE Pick(stripped, kept)

SentenceLookback == 100

\* rag_service.py:83-97: where the chunk that starts at start ends
ChunkEnd(text, start, chunk_size) ==
    LET end == start + chunk_size
        search_start == IF start + chunk_size - SentenceLookback > start
                        THEN start + chunk_size - SentenceLookback ELSE start
        sentence_end == Max3(rfind(text, ".", search_start, end),
                             rfind(text, "!", search_start, end),
                             rfind(text, "?", search_start, end))
    IN IF end < Len(text) /\ sentence_end > start THEN sentence_end + 1 ELSE end

\* a _create_chunks call not yet made, under configuration (chunk_size, chunk_overlap)
Configured(text, chunk_size, chunk_overlap) ==
    [pc |-> "configured", text |-> text, chunk_size |-> chunk_size,
     chunk_overlap |-> chunk_overlap, start |-> 0, chunks |-> <<>>, iterations |-> 0]

\* _create_chunks up to its loop (lines 66-80): the text is normalised; a text of at
\* most chunk_size characters is returned as one chunk
CC_Start ==
    /\ ck.pc = "configured"
    /\ LET text == NormalizeWhitespace(ck.text)
       IN ck' = IF Len(text) <= ck.chunk_size
                THEN [ck EXCEPT !.pc = "done", !.text = text,
                                !.chunks = <<[text |-> text, chunk_index |-> 0]>>]
                ELSE [ck EXCEPT !.pc = "loop", !.text = text]
    /\ UNCHANGED <<chatVars, verdanaVars, storeVars, searchVars, confidenceVars, poolVars,
                 routeVars>>

\* one iteration of `while start < len(text)` (lines 82-116)
CC_Iterate ==
    /\ ck.pc = "loop"
    /\ LET end        == ChunkEnd(ck.text, ck.start, ck.chunk_size)
           chunk_text == Strip(Slice(ck.text, ck.start, end))
           chunk      == [text |-> chunk_text, chunk_index |-> Len(ck.chunks),
                          chunk_start |-> ck.start, chunk_end |-> end]
           start      == end - ck.chunk_overlap
       IN ck' = [ck EXCEPT !.pc = IF start >= Len(ck.text) THEN "done" ELSE "loop",
                           !.chunks = IF chunk_text # <<>> THEN Append(@, chunk) ELSE @,
                           !.start = start,
                           !.iterations = @ + 1]
    /\ UNCHANGED <<chatVars, verdanaVars, storeVars, searchVars, confidenceVars, poolVars,
                 routeVars>>

\* ------------------------------------- RAGService._get_db_connection
\* `conn = await self._get_db_connection()` of search_documents, upload_document or
\* delete_document, up to its first suspension point (lines 38-48): without a pool
\* it awaits create_pool; with one it acquires a connection of that pool
GC_Start(p) ==
    /\ conn[p].pc = "idle"
    /\ conn' = [conn EXCEPT ![p] =
                  IF db_pool = 0
                  THEN [pc |-> "create_pool", calls |-> @.calls + 1, pool |-> 0,
                        released_to |-> 0]
                  ELSE [pc |-> "held", calls |-> @.calls + 1, pool |-> db_pool,
                        released_to |-> 0]]
    /\ UNCHANGED <<db_pool, pools_created>>
    /\ UNCHANGED <<chatVars, verdanaVars, storeVars, searchVars, chunkVars, confidenceVars,
                 routeVars>>

\* asyncpg.create_pool returned (lines 41-48): the pool is assigned to self._db_pool
\* and a connection of it acquired; a failed create_pool raises to the caller's handler
GC_Created(p, ok) ==
    /\ conn[p].pc = "create_pool"
    /\ IF ok
       THEN /\ pools_created' = pools_created + 1
            /\ db_pool' = pools_created + 1
            /\ conn' = [conn EXCEPT ![p].pc = "held", ![p].pool = pools_created + 1]
       ELSE /\ conn' = [conn EXCEPT ![p].pc = "idle"]
            /\ UNCHANGED <<db_pool, pools_created>>
    /\ UNCHANGED <<chatVars, verdanaVars, storeVars, searchVars, chunkVars, confidenceVars,
                 routeVars>>

\* the finally clause of the caller: _release_db_connection(conn) (lines 50-53)
\* releases the connection to the pool self._db_pool names now
GC_Release(p) ==
    /\ conn[p].pc = "held"
    /\ conn' = [conn EXCEPT ![p].pc = "idle", ![p].released_to = db_pool]
    /\ UNCHANGED <<db_pool, pools_created>>
    /\ UNCHANGED <<chatVars, verdanaVars, storeVars, searchVars, chunkVars, confidenceVars,
                 routeVars>>

\* ------------------------------------------------------- specifications
Started == req_count["s1"] + req_count["s2"]

InitChatService ==
    /\ chat_history = [s \in {} |-> <<>>]
    /\ pm = [p \in Procs |-> Idle]
    /\ pm_result = [p \in Procs |-> NoResult]
    /\ req_count = [s \in Sessions |-> 0]
    /\ clears = 0
    /\ cleared_upto = [s \in Sessions |-> 0]

InitVerdanaAgent ==
    /\ session_contexts = [s \in {} |-> <<>>]
    /\ session_languages = [s \in {} |-> "en"]
    /\ vq = [p \in Procs |-> Idle]
    /\ v_result = [p \in Procs |-> NoResult]
    /\ v_count = [s \in Sessions |-> 0]

InitStore ==
    /\ documents = {}
    /\ document_chunks = {}
    /\ next_id = 1
    /\ store_ops = 0
    /\ rs = [p \in Procs |-> Idle]
    /\ rs_result = [p \in Procs |-> NoResult]
    /\ documents_db = [d \in {} |-> <<>>]
    /\ ds = [p \in Procs |-> Idle]
    /\ ds_result = [p \in Procs |-> NoResult]

InitSearch ==
    /\ store_sims = [c \in Sims |-> 0]
    /\ top_k = 1
    /\ search_results = <<>>

\* Settings.CHUNK_SIZE and CHUNK_OVERLAP at their defaults, no text being chunked;
\* no confidence computed yet
InitChunker == ck = Configured(<<>>, 1000, 200) /\ confidence_calls = <<>>

\* RAGService.__init__: self._db_pool = None; no task holds a connection
InitRoutes ==
    /\ api = [p \in Procs |-> Idle]
    /\ api_result = [p \in Procs |-> NoResult]
    /\ processed_ids = {}

\* RAGService.__init__: self._db_pool = None; no task holds a connection
InitPool ==
    /\ db_pool = 0
    /\ pools_created = 0
    /\ conn = [p \in Procs |-> [pc |-> "idle", calls |-> 0, pool |-> 0, released_to |-> 0]]

\* what the knowledge base and the web search return in SpecChat
RagSourceLists ==
    { <<>>, <<KBSource("d1")>>, <<KBSource("d1"), KBSource("d2")>>,
      <<KBSource("d1"), KBSource("d1")>> }
WebResultLists ==
    { <<>>, <<WebResult("w1", "u1")>>, <<WebResult("w1", "u1"), WebResult("w2", "u2")>>,
      <<WebResult("w1", "u1"), WebResult("w1", "u1")>> }

\* SpecHistory: a long conversation.  One task serves greetings on one session; the
\* retrieval call returns nothing or raises, the completion call succeeds.
InitServices ==
    /\ InitChatService /\ web_research_agent = TRUE
    /\ InitVerdanaAgent /\ InitStore /\ InitSearch /\ InitChunker /\ InitPool /\ InitRoutes

NextHistory ==
    \/ Started < MaxRequests /\ PM_Start(1, "s1", "Q_hello")
    \/ PM_RagRaise(1)
    \/ PM_RagReturn(1, <<>>)
    \/ PM_Complete(1, "R_plain")
    \/ clears < MaxClears /\ PM_Clear("s1")

SpecHistory == InitServices /\ [][NextHistory]_vars

\* SpecSessions: concurrent requests.  NumProcs tasks serve greetings on two
\* sessions in any interleaving.
NextSessions ==
    \/ \E p \in Procs, s \in Sessions :
          Started < MaxSessionRequests /\ PM_Start(p, s, "Q_hello")
    \/ \E p \in Procs : PM_RagRaise(p)
    \/ \E p \in Procs : PM_RagReturn(p, <<>>)
    \/ \E p \in Procs : PM_Complete(p, "R_plain")
    \/ \E s \in Sessions : clears < MaxClears /\ PM_Clear(s)

SpecSessions == InitServices /\ [][NextSessions]_vars

\* SpecChat: one task, one session, every query, retrieval result, web result and
\* completion outcome.
InitChat ==
    /\ InitChatService /\ web_research_agent \in BOOLEAN
    /\ InitVerdanaAgent /\ InitStore /\ InitSearch /\ InitChunker /\ InitPool /\ InitRoutes

NextChat ==
    \/ \E q \in Queries : Started < MaxChatRequests /\ PM_Start(1, "s1", q)
    \/ PM_RagRaise(1)
    \/ \E rag_sources \in RagSourceLists : PM_RagReturn(1, rag_sources)
    \/ \E results \in WebResultLists : PM_WebReturn(1, results)
    \/ \E llm \in LLMOutcomes : PM_Complete(1, llm)

SpecChat == InitChat /\ [][NextChat]_vars

\* SpecVerdana: one task of the VerdanaAgent, every query, language, detection
\* outcome, search result and completion outcome.
RagResultLists ==
    { <<>>, <<RagResult("d1", 25)>>,
      <<RagResult("d1", 80), RagResult("d1", 60), RagResult("d2", 40)>> }
VerificationResultLists ==
    { <<>>, <<WebServiceResult(<<"w1">>, <<"u1">>, "web_search")>> }
BroadResultLists ==
    { <<>>,
      <<WebServiceResult(<<"w1">>, <<"u1">>, "broad_search"),
        WebServiceResult(<<"w2">>, <<>>, "broad_search")>>,
      <<WebServiceResult(WebSearchSummary, <<"u3">>, "broad_search"),
        WebServiceResult(<<"w2">>, <<"u2">>, "broad_search")>> }

VStarted == v_count["s1"] + v_count["s2"]

NextVerdana ==
    \/ \E s \in Sessions, q \in Queries, language \in Languages,
          detection \in DetectionOutcomes, llm \in LLMOutcomes :
          VStarted < MaxVerdanaRequests /\ V_Start(1, s, q, language, detection, llm)
    \/ \E rag_results \in RagResultLists : V_RagReturn(1, rag_results)
    \/ \E web_results \in VerificationResultLists : V_VerifyReturn(1, web_results)
    \/ \E web_results \in BroadResultLists, llm \in LLMOutcomes :
          V_BroadReturn(1, web_results, llm)

SpecVerdana == InitServices /\ [][NextVerdana]_vars

\* SpecLanguage: NumProcs tasks run VerdanaAgent.process_query on the same agent,
\* with any language hint and any outcome of the detection call.
NextLanguage ==
    \/ \E p \in Procs, s \in Sessions, q \in {"Q_hello", "Q_cbam"},
          language \in Languages, detection \in DetectionOutcomes :
          VStarted < MaxVerdanaRequests /\ V_Start(p, s, q, language, detection, "R_plain")
    \/ \E p \in Procs : V_RagReturn(p, <<RagResult("d1", 80)>>)
    \/ \E p \in Procs : V_VerifyReturn(p, <<>>)
    \/ \E p \in Procs : V_BroadReturn(p, <<>>, "R_plain")

SpecLanguage == InitServices /\ [][NextLanguage]_vars

\* SpecUpload: NumProcs tasks upload documents through RAGService.upload_document
\* and delete them through RAGService.delete_document, every await succeeding or
\* failing.
NextUpload ==
    \/ \E p \in Procs, content \in Contents \cup {""} :
          store_ops < MaxStoreOps /\ U_Start(p, content)
    \/ \E p \in Procs, ok \in BOOLEAN : U_Exists(p, ok)
    \/ \E p \in Procs, ok \in BOOLEAN : U_InsertDoc(p, ok)
    \/ \E p \in Procs, ok \in BOOLEAN : U_Embed(p, ok)
    \/ \E p \in Procs, ok \in BOOLEAN : U_InsertChunk(p, ok)
    \/ \E p \in Procs, d \in {x.id : x \in documents} \cup {DocumentRowId(0)} :
          store_ops < MaxStoreOps /\ D_Start(p, d)
    \/ \E p \in Procs, ok \in BOOLEAN : D_DeleteChunks(p, ok)
    \/ \E p \in Procs, ok \in BOOLEAN : D_DeleteDoc(p, ok)

SpecUpload == InitServices /\ [][NextUpload]_vars

\* ------------------------------------------- api/routes/documents.py
\* DocumentService(): every request handler builds its own service, whose
\* documents_db starts empty (document_service.py lines 31-33)
DocumentService == [documents_db |-> [d \in {} |-> <<>>]]

allowed_types == {"pdf", "txt", "docx", "html"}

\* POST /upload up to the first add_document_chunk call (routes lines 38-70,
\* process_document lines 45-85): an extension outside allowed_types is answered
\* 400; a content without text is answered "failed"
upload_document(p, file_extension, content) ==
    /\ api[p].pc = "idle"
    /\ IF file_extension \notin allowed_types
       THEN /\ api_result' = [api_result EXCEPT ![p] =
                                [status |-> "returned", op |-> "upload", code |-> 400]]
            /\ UNCHANGED <<api, next_id>>
       ELSE /\ next_id' = next_id + 1
            /\ IF content = ""
               THEN /\ api_result' = [api_result EXCEPT ![p] =
                          [status |-> "returned", op |-> "upload", code |-> 200,
                           document_id |-> NewDocumentId(next_id), state |-> "failed"]]
                    /\ api' = api
               ELSE /\ api' = [api EXCEPT ![p] =
                          [pc |-> "add", doc_service |-> DocumentService,
                           document_id |-> NewDocumentId(next_id),
                           content |-> content, chunks |-> DocumentChunks(content),
                           i |-> 1, chunk_count |-> 0]]
                    /\ api_result' = [api_result EXCEPT ![p] = NoResult]
    /\ store_ops' = store_ops + 1
    /\ UNCHANGED <<documents, document_chunks, rs, rs_result, documents_db, ds, ds_result,
                   processed_ids>>
    /\ UNCHANGED <<chatVars, verdanaVars, searchVars, chunkVars, confidenceVars, poolVars>>

\* add_document_chunk answered for chunk i; after the last chunk the document info
\* is stored in the documents_db of the handler's own service and the result
\* returned (process_document lines 80-109, routes lines 72-73); the service is
\* dropped with the handler's frame
upload_document_chunk(p, ok) ==
    /\ api[p].pc = "add"
    /\ LET chunk_count == IF ok THEN api[p].chunk_count + 1 ELSE api[p].chunk_count
           metadata    == ChunkMetadata(api[p].document_id, api[p].i, Len(api[p].chunks))
       IN /\ IF ok
             THEN /\ document_chunks' = add_document_chunk(document_chunks, next_id,
                                                           api[p].chunks[api[p].i], metadata)
                  /\ next_id' = next_id + 1
             ELSE UNCHANGED <<document_chunks, next_id>>
          /\ IF api[p].i < Len(api[p].chunks)
             THEN /\ api' = [api EXCEPT ![p].i = @ + 1, ![p].chunk_count = chunk_count]
                  /\ UNCHANGED <<api_result, processed_ids>>
             ELSE LET stored == (api[p].document_id :>
                                    DocumentInfo(api[p].document_id, api[p].content,
                                                 chunk_count))
                                @@ api[p].doc_service.documents_db
                  IN /\ api_result' = [api_result EXCEPT ![p] =
                           [status |-> "returned", op |-> "upload", code |-> 200,
                            document_id |-> api[p].document_id,
                            state |-> stored[api[p].document_id].status]]
                     /\ processed_ids' = processed_ids \cup {api[p].document_id}
                     /\ api' = [api EXCEPT ![p] = Idle]
    /\ UNCHANGED <<documents, store_ops, rs, rs_result, documents_db, ds, ds_result>>
    /\ UNCHANGED <<chatVars, verdanaVars, searchVars, chunkVars, confidenceVars, poolVars>>

\* GET /{document_id} (routes lines 154-170, get_document lines 219-225): the
\* handler's own service is asked; None is answered 404
get_document(p, document_id) ==
    /\ api[p].pc = "idle"
    /\ LET doc_service == DocumentService
       IN api_result' = [api_result EXCEPT ![p] =
             IF document_id \in DOMAIN doc_service.documents_db
             THEN [status |-> "returned", op |-> "get", code |-> 200,
                   document_id |-> document_id,
                   document |-> doc_service.documents_db[document_id]]
             ELSE [status |-> "returned", op |-> "get", code |-> 404,
                   document_id |-> document_id]]
    /\ store_ops' = store_ops + 1
    /\ UNCHANGED <<documents, document_chunks, next_id, rs, rs_result, documents_db, ds,
                   ds_result, api, processed_ids>>
    /\ UNCHANGED <<chatVars, verdanaVars, searchVars, chunkVars, confidenceVars, poolVars>>

\* GET / (routes lines 84-94, list_documents lines 204-217): the entries of the
\* handler's own service
list_documents(p) ==
    /\ api[p].pc = "idle"
    /\ LET doc_service == DocumentService
       IN api_result' = [api_result EXCEPT ![p] =
             [status |-> "returned", op |-> "list", code |-> 200,
              ids |-> DOMAIN doc_service.documents_db]]
    /\ store_ops' = store_ops + 1
    /\ UNCHANGED <<documents, document_chunks, next_id, rs, rs_result, documents_db, ds,
                   ds_result, api, processed_ids>>
    /\ UNCHANGED <<chatVars, verdanaVars, searchVars, chunkVars, confidenceVars, poolVars>>

\* DELETE /{document_id} up to the delete_document_chunks call (routes lines
\* 173-178, delete_document lines 227-233)
delete_document_request(p, document_id) ==
    /\ api[p].pc = "idle"
    /\ api' = [api EXCEPT ![p] = [pc |-> "delete", doc_service |-> DocumentService,
                                  document_id |-> document_id]]
    /\ api_result' = [api_result EXCEPT ![p] = NoResult]
    /\ store_ops' = store_ops + 1
    /\ UNCHANGED <<documents, document_chunks, next_id, rs, rs_result, documents_db, ds,
                   ds_result, processed_ids>>
    /\ UNCHANGED <<chatVars, verdanaVars, searchVars, chunkVars, confidenceVars, poolVars>>

\* delete_document_chunks answered (delete_document lines 235-245, routes lines
\* 180-183): True when the id is a key of the service's documents_db, else what
\* the chunk deletion returned, False on an exception; False is answered 404
delete_document_response(p, outcome) ==
    /\ api[p].pc = "delete"
    /\ LET d       == api[p].document_id
           deleted == delete_document_chunks(document_chunks, d, outcome)
           success == IF outcome = "raise" THEN FALSE
                      ELSE IF d \in DOMAIN api[p].doc_service.documents_db THEN TRUE
                      ELSE deleted.success
       IN /\ document_chunks' = IF outcome = "raise" THEN document_chunks ELSE deleted.table
          /\ api_result' = [api_result EXCEPT ![p] =
                [status |-> "returned", op |-> "delete", document_id |-> d,
                 code |-> IF success THEN 200 ELSE 404]]
          /\ processed_ids' = IF success THEN processed_ids \ {d} ELSE processed_ids
    /\ api' = [api EXCEPT ![p] = Idle]
    /\ UNCHANGED <<documents, next_id, store_ops, rs, rs_result, documents_db, ds, ds_result>>
    /\ UNCHANGED <<chatVars, verdanaVars, searchVars, chunkVars, confidenceVars, poolVars>>

\* SpecRoutes: NumProcs tasks send upload, get, list and delete requests to the
\* documents endpoints.
NextRoutes ==
    \/ \E p \in Procs, file_extension \in {"txt", "exe"}, content \in Contents \cup {""} :
          store_ops < MaxRouteRequests /\ upload_document(p, file_extension, content)
    \/ \E p \in Procs, ok \in BOOLEAN : upload_document_chunk(p, ok)
    \/ \E p \in Procs, d \in processed_ids \cup {NewDocumentId(0)} :
          store_ops < MaxRouteRequests /\ get_document(p, d)
    \/ \E p \in Procs : store_ops < MaxRouteRequests /\ list_documents(p)
    \/ \E p \in Procs, d \in processed_ids \cup {NewDocumentId(0)} :
          store_ops < MaxRouteRequests /\ delete_document_request(p, d)
    \/ \E p \in Procs, outcome \in DeleteOutcomes : delete_document_response(p, outcome)

SpecRoutes == InitServices /\ [][NextRoutes]_vars

\* SpecDocuments: NumProcs tasks ingest documents through
\* DocumentService.process_document and delete them through
\* DocumentService.delete_document.
NextDocuments ==
    \/ \E p \in Procs, content \in Contents \cup {""} :
          store_ops < MaxStoreOps /\ PD_Start(p, content)
    \/ \E p \in Procs, ok \in BOOLEAN : PD_AddChunk(p, ok)
    \/ \E p \in Procs, d \in DOMAIN documents_db \cup {NewDocumentId(0)} :
          store_ops < MaxStoreOps /\ DD_Start(p, d)
    \/ \E p \in Procs, outcome \in DeleteOutcomes : DD_Return(p, outcome)

SpecDocuments == InitServices /\ [][NextDocuments]_vars

\* SpecSearch: searches on a store that does not change; the store and top_k are
\* drawn at the start.
InitSearches ==
    /\ InitChatService /\ web_research_agent = TRUE
    /\ InitVerdanaAgent /\ InitStore /\ InitChunker /\ InitPool /\ InitRoutes
    /\ store_sims \in [Sims -> ChunkCounts]
    /\ top_k \in 1..MaxTopK
    /\ search_results = <<>>

NextSearch ==
    \E sample \in Samples(store_sims, top_k), ok \in BOOLEAN :
        Len(search_results) < MaxSearches /\ search_documents(sample, ok)

SpecSearch == InitSearches /\ [][NextSearch]_vars

\* SpecChunks: _create_chunks is called once on any text over TextChars of at most
\* MaxTextLen characters, under any configured CHUNK_SIZE and CHUNK_OVERLAP (Settings
\* takes any integers; the model draws them from 1..MaxChunkSize and 0..MaxChunkSize).
TextChars == {"a", " ", "."}

Texts == UNION {[1..n -> TextChars] : n \in 0..MaxTextLen}

InitChunks ==
    /\ InitChatService /\ web_research_agent = TRUE
    /\ InitVerdanaAgent /\ InitStore /\ InitSearch /\ confidence_calls = <<>> /\ InitPool /\ InitRoutes
    /\ \E text \in Texts, chunk_size \in 1..MaxChunkSize,
          chunk_overlap \in 0..MaxChunkSize :
          ck = Configured(text, chunk_size, chunk_overlap)

NextChunks ==
    \/ CC_Start
    \/ ck.iterations < MaxIterations /\ CC_Iterate

SpecChunks == InitChunks /\ [][NextChunks]_vars

\* SpecScenario: _create_chunks is called once under chunk_size 800 and overlap 300
\* on a text of 5,000 letters with sentence terminators at offset first and every
\* gap characters after it (gap 0: no terminator).
ScenarioText(first, gap) ==
    [i \in 1..5000 |->
        IF gap > 0 /\ i - 1 >= first /\ (i - 1 - first) % gap = 0 THEN "." ELSE "a"]

InitScenario ==
    /\ InitChatService /\ web_research_agent = TRUE
    /\ InitVerdanaAgent /\ InitStore /\ InitSearch /\ confidence_calls = <<>> /\ InitPool /\ InitRoutes
    /\ \E first \in {700, 750, 799}, gap \in {0, 401, 420, 450, 500} :
          ck = Configured(ScenarioText(first, gap), 800, 300)

NextScenario == CC_Start \/ CC_Iterate

SpecScenario == InitScenario /\ [][NextScenario]_vars

\* SpecConfidence: _calculate_confidence is called on source lists of up to
\* MaxSources entries, with an empty and with a non-empty context.
CalculateConfidence(rag_sources, web_sources, context) ==
    /\ confidence_calls' =
          Append(confidence_calls,
                 [rag_sources |-> rag_sources, web_sources |-> web_sources,
                  context |-> context,
                  confidence |-> _calculate_confidence(rag_sources, web_sources, context)])
    /\ UNCHANGED <<chatVars, verdanaVars, storeVars, searchVars, chunkVars, poolVars,
                 routeVars>>

NextConfidence ==
    \E kb \in 0..MaxSources, web \in 0..MaxSources, context \in {<<>>, <<"rag">>} :
        /\ Len(confidence_calls) < MaxConfidenceCalls
        /\ CalculateConfidence(Repeat(KBSource("d1"), kb),
                               Repeat(WebResult("w1", "u1"), web), context)

SpecConfidence == InitServices /\ [][NextConfidence]_vars

\* SpecPool: NumProcs tasks call search_documents, upload_document or
\* delete_document on one RAGService; each call gets a connection and releases it.
NextPool ==
    \/ \E p \in Procs :
          /\ conn[p].calls < MaxConnections
          /\ GC_Start(p)
    \/ \E p \in Procs, ok \in BOOLEAN : GC_Created(p, ok)
    \/ \E p \in Procs : GC_Release(p)

SpecPool == InitServices /\ [][NextPool]_vars

\* ------------------------------------------------------------- properties
ApologyPrefix == <<"I"," ","a","p","o","l","o","g","i","z","e">>

\* the text is one of the fixed apologetic messages
IsApology(id) == StartsWith(Text(id), ApologyPrefix)

\* C1: when the completion call failed while a query was processed, the response
\* returned is the fixed apologetic message, with no sources and confidence 0
\* (stated of VerdanaAgent.process_query, every query class)
C1_CompletionFailureAnswer ==
    \A p \in Procs :
        (v_result[p].status = "returned" /\ v_result[p].completion_failed)
        => /\ IsApology(v_result[p].response.response)
           /\ v_result[p].response.sources = <<>>
           /\ "confidence" \in DOMAIN v_result[p].response
           /\ v_result[p].response.confidence = 0

\* C2: whenever no call for a session is in progress, its stored history holds at
\* most 20 turns, and the turns kept are in the order their requests were made
\* (stated of ChatService.process_message, the error path included)
C2_HistoryBounded ==
    \A s \in DOMAIN chat_history :
        ~SessionBusy(s)
        => /\ Len(chat_history[s]) <= MaxHistory
           /\ \A i, j \in 1..Len(chat_history[s]) :
                 i < j => chat_history[s][i].req <= chat_history[s][j].req

\* the assistant turn at index i of h directly follows the user turn of its request
FollowsItsUserTurn(h, i) ==
    h[i - 1].role = "user" /\ h[i - 1].req = h[i].req

\* C3 as stated: for every interleaving of process_message calls on one session,
\* each assistant turn that is not first in the stored list directly follows the
\* user turn of the request it answers
C3_NoInterleavedTurns ==
    \A s \in DOMAIN chat_history :
        \A i \in 2..Len(chat_history[s]) :
            chat_history[s][i].role = "assistant" => FollowsItsUserTurn(chat_history[s], i)

\* C3 amended: the assistant turn of a request during which no other request of its
\* session was in flight directly follows the user turn of that request, wherever it
\* is not first in the stored list
C3_SerialRequestsKeepPairs ==
    \A p \in Procs :
        (/\ pm_result[p].status = "returned"
         /\ pm_result[p].path # "handler"
         /\ ~pm_result[p].overlapped)
        => LET h == HistoryOf(chat_history, pm_result[p].session_id)
           IN \A i \in 2..Len(h) :
                 (h[i].role = "assistant" /\ h[i].req = pm_result[p].req)
                 => FollowsItsUserTurn(h, i)

\* a request that no other overlapped has its two turns stored next to each other,
\* after the turns of earlier requests
C3_Witness ==
    \E p \in Procs :
        /\ pm_result[p].status = "returned"
        /\ pm_result[p].path # "handler"
        /\ ~pm_result[p].overlapped
        /\ LET h == HistoryOf(chat_history, pm_result[p].session_id)
           IN \E i \in 3..Len(h) :
                 /\ h[i].role = "assistant" /\ h[i].req = pm_result[p].req
                 /\ FollowsItsUserTurn(h, i)

\* the stored history of session t differs between the two states of a step
HistoryChanged(t) ==
    \/ (t \in DOMAIN chat_history) # (t \in DOMAIN chat_history')
    \/ HistoryOf(chat_history, t) # HistoryOf(chat_history', t)

\* the step is one of a request carrying session id t: a process_message call on t
\* starts or ends, or a clear_chat_history call is made
RequestStep(t) ==
    \/ \E p \in Procs : pm[p].pc = "idle" /\ pm'[p].pc # "idle" /\ pm'[p].session_id = t
    \/ \E p \in Procs : InFlight(p, t) /\ pm'[p].pc = "idle"
    \/ clears' = clears + 1

C5_ReingestIsNoOp ==
    /\ \A p, q \in Procs :
          (/\ ds_result[p].status = "returned" /\ ds_result[p].op = "process"
           /\ ds_result[q].status = "returned" /\ ds_result[q].op = "process"
           /\ ds_result[p].content = ds_result[q].content
           /\ ds_result[p].failed = {} /\ ds_result[q].failed = {})
          => ds_result[p].chunk_count = ds_result[q].chunk_count
    /\ \A a, b \in document_chunks : a.content = b.content => a.id = b.id

\* C6: when embedding or storing chunk i failed during an ingest, the chunks after
\* i are stored all the same (stated of RAGService.upload_document)
C6_IngestGoesOnAfterFailure ==
    \A p \in Procs :
        (/\ rs_result[p].status = "returned" /\ rs_result[p].op = "upload"
         /\ rs_result[p].failed_chunk # 0)
        => \A j \in (rs_result[p].failed_chunk + 1)..ChunkCount(rs_result[p].arg) :
              \E c \in document_chunks : c.content = <<rs_result[p].arg, j>>

\* C7: when delete_document(d) reported success no chunk of d is stored, and when
\* it reported failure it did not remove the document record
\* (stated of DocumentService.delete_document)
C7_DeleteRemovesChunks ==
    \A p \in Procs :
        (ds_result[p].status = "returned" /\ ds_result[p].op = "delete")
        => IF ds_result[p].value
           THEN \A c \in document_chunks : c.document_id # ds_result[p].document_id
           ELSE ~ds_result[p].record_removed

\* how many entries of the list l equal x
Occurrences(l, x) == Cardinality({i \in 1..Len(l) : l[i] = x})

\* C8: a successful search returns at most top_k chunks, by non-increasing
\* similarity, all above the floor; a stored chunk above the floor is left out only
\* when top_k chunks at least as similar are returned; and the successful searches
\* of an unchanged store return the same result
C8_TopKOfWholeStore ==
    /\ \A n \in 1..Len(search_results) :
          search_results[n].ok
          => LET hits == search_results[n].hits
             IN /\ Len(hits) <= top_k
                /\ \A i, j \in 1..Len(hits) : i < j => hits[i] >= hits[j]
                /\ \A i \in 1..Len(hits) : hits[i] > SimilarityFloor
                /\ \A c \in Sims :
                      (c > SimilarityFloor /\ store_sims[c] > Occurrences(hits, c))
                      => /\ Len(hits) = top_k
                         /\ \A i \in 1..Len(hits) : hits[i] >= c
    /\ \A m, n \in 1..Len(search_results) :
          (search_results[m].ok /\ search_results[n].ok)
          => search_results[m].hits = search_results[n].hits

\* C9: handling a query that is classified as general conversation makes no
\* knowledge-base retrieval call and no web search call, and the response has no
\* sources (stated of ChatService.process_message)
C9_NoRetrievalForCasual ==
    \A p \in Procs :
        (pm_result[p].status = "returned"
         /\ pm_result[p].query_type = "general_conversation")
        => /\ \A i \in 1..Len(pm_result[p].calls) :
                 pm_result[p].calls[i].api \notin {"knowledge_base", "web_search"}
           /\ pm_result[p].response.sources = <<>>

\* C10: the sources of a successfully answered in-domain query start with the
\* canonical official source, knowledge-base sources come before web sources, and
\* there is no knowledge-base source when the knowledge base returned nothing
\* (stated of ChatService.process_message with UnifiedChatAgent._format_all_sources)
C10_OfficialSourceFirst ==
    \A p \in Procs :
        (/\ pm_result[p].status = "returned"
         /\ pm_result[p].path = "answered"
         /\ pm_result[p].query_type = "eu_green_policy")
        => LET sources == pm_result[p].response.sources
           IN /\ Len(sources) >= 1
              /\ sources[1].type = "official_source"
              /\ \A i, j \in 1..Len(sources) :
                    (i < j /\ sources[j].type = "knowledge_base")
                    => sources[i].type \in {"official_source", "knowledge_base"}
              /\ pm_result[p].rag_sources = <<>>
                    => \A i \in 1..Len(sources) : sources[i].type # "knowledge_base"

\* the entries of a sources list that are web sources / knowledge-base sources
WebEntries(sources) ==
    {i \in 1..Len(sources) : sources[i].type \in {"web_verification", "web_search"}}

KBEntries(sources) == {i \in 1..Len(sources) : sources[i].type = "knowledge_base"}

\* C11: in every sources list returned for an answered in-domain query the
\* knowledge-base entries are at most 3 with pairwise distinct filenames and the
\* web entries at most 5 with pairwise distinct URLs (stated of
\* VerdanaAgent.process_query, both response builders)
C11_SourcesCappedAndDistinct ==
    \A p \in Procs :
        (/\ v_result[p].status = "returned"
         /\ v_result[p].query_type = "eu_green_deal"
         /\ ~v_result[p].completion_failed)
        => LET sources == v_result[p].response.sources
           IN /\ Cardinality(KBEntries(sources)) <= 3
              /\ \A i, j \in KBEntries(sources) :
                    sources[i].filename = sources[j].filename => i = j
              /\ Cardinality(WebEntries(sources)) <= 5
              /\ \A i, j \in WebEntries(sources) :
                    sources[i].url = sources[j].url => i = j


\* the turns of a history as the completion call receives them
AsMessages(history) ==
    [i \in 1..Len(history) |-> [role |-> history[i].role, content |-> history[i].content]]

\* C12: the message list of every completion call is one system message, then the
\* at most six most recent turns stored before this request, oldest first, then the
\* current user turn once, as the last entry (UnifiedChatAgent.process_query called
\* by ChatService.process_message)
C12_OneSystemRecentTurnsThenQuery ==
    \A p \in Procs :
        (pm_result[p].status = "returned" /\ pm_result[p].path # "handler")
        => LET prior == FirstN(pm_result[p].history, Len(pm_result[p].history) - 1)
           IN pm_result[p].messages =
                 <<SystemMessage>> \o AsMessages(LastN(prior, 6))
                    \o <<[role |-> "user", content |-> pm_result[p].message]>>


\* the user turns stored for session s and the requests of s in flight
UserTurns(contexts, s) ==
    {i \in 1..Len(HistoryOf(contexts, s)) : HistoryOf(contexts, s)[i].role = "user"}

\* C13: once a session has a language it keeps it: no step changes the language of
\* a session that has one, and every stored user turn and every request in flight
\* of the session carries the session's language, whatever hint the request came
\* with and however the requests of the session interleave
\* (VerdanaAgent._detect_and_set_language called by process_query)
C13_SessionLanguagePinned ==
    [][\A s \in Sessions :
          /\ s \in DOMAIN session_languages
             => /\ s \in DOMAIN session_languages'
                /\ session_languages'[s] = session_languages[s]
          /\ \A i \in UserTurns(session_contexts', s) :
                session_contexts'[s][i].language = session_languages'[s]
          /\ \A p \in Procs :
                (vq'[p].pc # "idle" /\ vq'[p].session_id = s)
                => vq'[p].language = session_languages'[s]]_vars

\* a later request of a session came with a hint other than the session's language
\* while an earlier request of the session was still in flight
C13_Witness ==
    \E s \in Sessions :
        /\ \E i \in UserTurns(session_contexts, s) :
              /\ session_contexts[s][i].req > 1
              /\ session_contexts[s][i].hint # session_languages[s]
              /\ session_contexts[s][i].language = session_languages[s]
        /\ \E p \in Procs : vq[p].pc # "idle" /\ vq[p].session_id = s /\ vq[p].req = 1


\* a search request that carries the allow-list of EU domains as its domain filter
DomainRestricted(call) ==
    "include_domains" \in DOMAIN call /\ call.include_domains = verification_domains

\* C14: every web search sent in verification mode carries the fixed allow-list of
\* EU domains as its domain filter: the search UnifiedChatAgent.process_query runs
\* when two or more knowledge-base sources were found, and
\* WebService.search_for_verification
C14_VerificationSearchRestricted ==
    \A p \in Procs :
        /\ (pm[p].pc = "web" /\ pm[p].mode = "verify")
           => DomainRestricted(pm[p].calls[Len(pm[p].calls)])
        /\ vq[p].pc = "verify" => DomainRestricted(vq[p].calls[Len(vq[p].calls)])


\* C15: _create_chunks never executes under a configuration whose overlap is at
\* least the chunk size: such a configuration is rejected before any chunking
C15_DegenerateConfigRejected ==
    ck.pc # "configured" => ck.chunk_overlap < ck.chunk_size

\* C18: chunking an empty or whitespace-only text yields no chunk
\* (RAGService._create_chunks)
C18_EmptyTextNoChunks ==
    (ck.pc = "done" /\ ck.text = <<>>) => ck.chunks = <<>>

\* C19: under a configuration with 0 <= overlap < chunk_size every iteration of
\* the chunking loop of _create_chunks moves start strictly forward, also when the
\* cut was moved back to a sentence terminator
C19_StartMovesForward ==
    [][(ck.pc = "loop" /\ ck.chunk_overlap < ck.chunk_size) => ck'.start > ck.start]_vars


\* the part of chunk i that is not overlap with chunk i - 1: its text without the
\* characters its span shares with the span of its predecessor
NewPortion(chunks, i) ==
    IF i = 1 \/ "chunk_start" \notin DOMAIN chunks[i] THEN chunks[i].text
    ELSE LET shared == chunks[i - 1].chunk_end - chunks[i].chunk_start
         IN Slice(chunks[i].text, IF shared > 0 THEN shared ELSE 0, Len(chunks[i].text))

RECURSIVE NewPortions(_, _)
NewPortions(chunks, n) ==
    IF n = 0 THEN <<>> ELSE NewPortions(chunks, n - 1) \o NewPortion(chunks, n)

\* C17: the new portions of the chunks of a text, concatenated in order, are the
\* whitespace-normalised text (RAGService._create_chunks under a configuration with
\* overlap < chunk_size)
C17_ChunksCoverText ==
    (ck.pc = "done" /\ ck.chunk_overlap < ck.chunk_size)
    => NewPortions(ck.chunks, Len(ck.chunks)) = ck.text


\* the two components of the score, each with its own cap, in hundredths
RagScore(call) == Min(70, 40 + 15 * Len(call.rag_sources))
WebScore(call) == Min(30, 10 * Len(call.web_sources))

\* C16: the confidence is 0.3 for an empty context and otherwise
\* min(0.95, min(0.7, 0.4 + 0.15 kb) + min(0.3, 0.1 web)); it lies between 0.3 and
\* 0.95, and of two calls with context the one with no fewer knowledge-base and no
\* fewer web sources has no smaller confidence
\* (UnifiedChatAgent._calculate_confidence, in hundredths)
C16_ConfidenceFormula ==
    \A i \in 1..Len(confidence_calls) :
        LET call == confidence_calls[i]
        IN /\ call.context = <<>> => call.confidence = 30
           /\ call.context # <<>>
              => call.confidence = Min(95, RagScore(call) + WebScore(call))
           /\ call.confidence >= 30 /\ call.confidence <= 95
           /\ \A j \in 1..Len(confidence_calls) :
                 LET other == confidence_calls[j]
                 IN (/\ call.context # <<>> /\ other.context # <<>>
                     /\ Len(call.rag_sources) <= Len(other.rag_sources)
                     /\ Len(call.web_sources) <= Len(other.web_sources))
                    => call.confidence <= other.confidence

\* one call without context, and one with context where both components and the
\* sum are cut by their caps
C16_Witness ==
    \E i, j \in 1..Len(confidence_calls) :
        /\ confidence_calls[i].context = <<>> /\ Len(confidence_calls[i].rag_sources) > 0
        /\ confidence_calls[i].confidence = 30
        /\ confidence_calls[j].context # <<>>
        /\ 40 + 15 * Len(confidence_calls[j].rag_sources) > 70
        /\ 10 * Len(confidence_calls[j].web_sources) > 30
        /\ confidence_calls[j].confidence = 95


\* the web search requests among the calls of a request
WebCalls(calls) ==
    {i \in 1..Len(calls) : calls[i].api = "web_search"}

QueryLower(q) == Strip(Lower(Text(q)))

\* C21: a query that is no identity query and contains a curated in-domain keyword
\* is classified in-domain, also when it has at most three words and matches a
\* casual template: the keyword rule comes before the casual rule
\* (VerdanaAgent._classify_query called by process_query)
C21_KeywordBeforeCasual ==
    \A p \in Procs :
        (/\ v_result[p].status = "returned"
         /\ ~ContainsAny(QueryLower(v_result[p].query), identity_keywords)
         /\ ContainsAny(QueryLower(v_result[p].query), eu_green_keywords))
        => v_result[p].query_type = "eu_green_deal"


\* one of the up to three turns stored before turn i of a session is an assistant
\* turn whose text contains an in-domain term
InDomainAnswerBefore(turns, i) ==
    \E j \in 1..(i - 1) :
        /\ j >= i - 3
        /\ turns[j].role = "assistant"
        /\ ContainsAny(Lower(Text(turns[j].content)), eu_terms)

\* C22: a follow-up query without in-domain keyword ("tell me more") that follows
\* an assistant turn with an in-domain term is classified in-domain
\* (VerdanaAgent._classify_query called by process_query)
C22_FollowUpInDomain ==
    \A p \in Procs :
        (/\ v_result[p].status = "returned"
         /\ ContainsAny(QueryLower(v_result[p].query), follow_up_patterns)
         /\ \E i \in UserTurns(session_contexts, v_result[p].session_id) :
               /\ session_contexts[v_result[p].session_id][i].req = v_result[p].req
               /\ InDomainAnswerBefore(session_contexts[v_result[p].session_id], i))
        => v_result[p].query_type = "eu_green_deal"

\* the same for UnifiedChatAgent._is_eu_green_query called through
\* ChatService.process_message: the follow-up is answered as an in-domain query
C22_ChatFollowUpInDomain ==
    \A p \in Procs :
        (/\ pm_result[p].status = "returned" /\ pm_result[p].path # "handler"
         /\ ContainsAny(QueryLower(pm_result[p].message), follow_up_patterns)
         /\ InDomainAnswerBefore(pm_result[p].history, Len(pm_result[p].history)))
        => pm_result[p].query_type = "eu_green_policy"


\* C23: a normalised text of 5,000 characters chunked with chunk_size 800 and
\* overlap 300 gives between 9 and 11 chunks, the first starting at offset 0,
\* wherever its sentence terminators are (RAGService._create_chunks)
C23_ScenarioChunkCount ==
    (ck.pc = "done" /\ Len(ck.text) = 5000 /\ ck.chunk_size = 800 /\ ck.chunk_overlap = 300)
    => /\ Len(ck.chunks) >= 9 /\ Len(ck.chunks) <= 11
       /\ ck.chunks[1].chunk_start = 0


\* C24: a process_message call that ended in its exception handler leaves no turn
\* of its own in the stored history of its session: the history is as it was
\* before the call (ChatService.process_message)
C24_ErrorPathLeavesHistory ==
    \A p \in Procs :
        (pm_result[p].status = "returned" /\ pm_result[p].path = "handler")
        => LET turns == HistoryOf(chat_history, pm_result[p].session_id)
           IN \A i \in 1..Len(turns) : turns[i].req # pm_result[p].req


\* the store holds a document record of the content's hash with every chunk of the
\* content
StoredWhole(docs, chunks, content) ==
    \E d \in docs :
        /\ d.file_hash = FileHash(content)
        /\ \A j \in 1..ChunkCount(content) :
              \E c \in chunks : c.document_id = d.id /\ c.content = <<content, j>>

\* C25: when upload_document returns True for a content while no other call of the
\* service is in flight, the store holds the document record with every chunk of
\* that content - also when an earlier upload of the content failed part-way
\* (RAGService.upload_document)
C25_TrueMeansStoredWhole ==
    [][\A p \in Procs :
          (/\ rs_result'[p] # rs_result[p]
           /\ rs_result'[p].status = "returned" /\ rs_result'[p].op = "upload"
           /\ rs_result'[p].value = TRUE
           /\ \A t \in Procs : rs'[t].pc = "idle")
          => StoredWhole(documents', document_chunks', rs_result'[p].arg)]_vars


\* C26: the store never holds two document records of one content hash, nor one
\* chunk of a content twice, however upload_document calls with identical content
\* interleave (RAGService.upload_document)
C26_OneRecordPerHash ==
    /\ \A d1, d2 \in documents : d1.file_hash = d2.file_hash => d1.id = d2.id
    /\ \A c1, c2 \in document_chunks : c1.content = c2.content => c1.id = c2.id


\* C27: a RAGService creates at most one connection pool, however first calls of
\* _get_db_connection interleave, and every connection is released to the pool it
\* was acquired from (RAGService._get_db_connection, _release_db_connection)
C27_OnePoolOwnRelease ==
    /\ pools_created <= 1
    /\ \A p \in Procs :
          (conn[p].pc = "idle" /\ conn[p].pool # 0) => conn[p].released_to = conn[p].pool


\* C28: when the web search of an in-domain query returned results, web content is
\* part of the context handed to the completion call, so the web sources counted
\* in the response were used (UnifiedChatAgent.process_query)
C28_WebResultsReachContext ==
    \A p \in Procs :
        (/\ pm_result[p].status = "returned" /\ pm_result[p].path = "answered"
         /\ pm_result[p].query_type = "eu_green_policy"
         /\ pm_result[p].web_sources # <<>>)
        => \E i \in 1..Len(pm_result[p].enhanced_context) :
              pm_result[p].enhanced_context[i] \in {"web_primary", "web_verification"}


\* C29: after the upload endpoint answered "processed" with a document id, a later
\* get-document request for that id answers the document's info and a later
\* list-documents request includes it, until a delete request for the id succeeds
C29_ProcessedDocumentRetrievable ==
    [][\A p \in Procs :
          (api_result'[p] # api_result[p] /\ api_result'[p].status = "returned")
          => /\ (api_result'[p].op = "get" /\ api_result'[p].document_id \in processed_ids)
                => api_result'[p].code = 200
             /\ api_result'[p].op = "list" => processed_ids \subseteq api_result'[p].ids]_vars


\* C30: once clear_chat_history(s) has returned, the stored history of session s
\* holds only turns of requests that started after the clear; a request that was
\* in flight at the clear does not re-create the history with its assistant turn
C30_OnlyTurnsStartedAfterClear ==
    \A s \in DOMAIN chat_history :
        \A i \in 1..Len(chat_history[s]) : chat_history[s][i].req > cleared_upto[s]

=============================================================================
